---- MODULE Spec2Model ----
(***************************************************************************)
(* Interview orchestration core of the AI interview system:                *)
(*   - InterviewSession (models/schemas.py)                                *)
(*   - InterviewerEngine, restore_interviewer (core/interviewer.py)        *)
(*   - ConversationManager (services/gemini_service.py)                    *)
(*   - EvaluatorEngine (core/evaluator.py) and run_evaluation (app.py)     *)
(*   - FileLock, file_lock, safe_write_json (utils/file_lock.py) and the   *)
(*     loaders of StorageService (services/storage_service.py)             *)
(*   - RateLimiter (utils/rate_limiter.py)                                 *)
(*                                                                         *)
(* A text is a sequence of tokens (a token stands for a run of             *)
(* characters), so that concatenation of streamed chunks and substring     *)
(* search are computed as the code computes them.                          *)
(***************************************************************************)
EXTENDS Integers, Sequences, FiniteSets, TLC

VARIABLES
    session,              \* InterviewSession: chat_history, turn_count, status, thought_signature, ended_at
    is_started,           \* InterviewerEngine.is_started
    is_ended,             \* InterviewerEngine.is_ended
    test_mode,            \* InterviewerEngine.test_mode
    test_mode_triggered,  \* InterviewerEngine.test_mode_triggered
    conversation,         \* ConversationManager: history, thought_signature
    start_called,         \* start_interview() has run on this engine instance
    gen_calls,            \* number of stream_generate calls issued for the session
    last_call,            \* what the most recent engine call did
    eval_pc,              \* evaluation of the session: idle, returned, raised
    eval_input,           \* what the generation service answers to each evaluation attempt
    eval_trace,           \* attempts made and backoff waits of the evaluate() call
    evaluation,           \* the EvaluationResult produced, or None
    raw_data,             \* _validate_scores: the dict parsed from the model's answer
    validated,            \* _validate_scores: the dict it returns, once it has run
    lk_pc,                \* file lock: where each caller stands in acquire / the with body / release
    thread_lock,          \* _thread_locks[path] of each process: the thread holding it
    marker,               \* the path's .lock file: whether it exists, who created it, whether its age exceeds max_age
    expired,              \* per caller: time.time() - start_time has reached the timeout
    overstayed,           \* a marker went stale while its creator was still in the with body
    files,                \* content of the target path and of the callers' temp files
    last_read,            \* what the last loader read from the target path
    lim_now,              \* rate limiter: the clock
    lim_requests,         \* RateLimiter._requests: timestamps kept per key
    lim_last_cleanup,     \* RateLimiter._last_cleanup
    lim_pc,               \* per thread: idle, waiting for RateLimiter._lock with its time read, or just returned
    lim_time,             \* per thread: current_time of its call
    lim_key,              \* per thread: key of its call
    lim_allowed,          \* how many requests were allowed so far, per key and timestamp
    lim_follows,          \* per thread: its get_reset_time call follows its own denied is_allowed, same key, same clock reading
    lim_reset,            \* per thread: what its get_reset_time call returned
    cr_now,               \* check_request: the clock
    cr_requests,          \* _requests of the session, ip and global limiters
    cr_last_cleanup,      \* _last_cleanup of the three limiters
    cr_last,              \* what the most recent check_request call did
    http_input,           \* what the endpoint answers to each POST of the call
    http_result,          \* what _request_with_retry did, once it has run
    sse_lines,            \* the lines response.iter_lines() gives to stream_generate
    sse_yielded,          \* the elements stream_generate yielded, once it has run
    st_today,             \* storage: the day datetime.now() falls on
    st_session,           \* the InterviewSession objects in memory, per session id
    st_files,             \* the session and evaluation files of the dated directories
    st_last,              \* what the most recent find_session_by_prefix call was given and returned
    sp_restored,          \* the session object try_restore_session_from_url installed, if any
    sp_complete,          \* save_interview_complete: not called, between its two saves, raised or returned
    et_pc,                \* evaluate(): at the loop head, in future.result, in the executor's exit, or returned
    et_attempt,           \* evaluate(): attempt of the loop
    et_workers,           \* per attempt made: the worker's _do_evaluate call is running, or how it ended
    et_pending,           \* what future.result(timeout) returned or raised, on its way out of the with block
    et_out                \* evaluate(): last_error, the backoff sleeps, and what it returned

engineVars == <<session, is_started, is_ended, test_mode, test_mode_triggered,
                conversation, start_called, gen_calls, last_call>>

evalVars == <<eval_pc, eval_input, eval_trace, evaluation>>

validateVars == <<raw_data, validated>>

lockVars == <<lk_pc, thread_lock, marker, expired, overstayed>>

fileVars == <<files, last_read>>

limiterVars == <<lim_now, lim_requests, lim_last_cleanup, lim_pc, lim_time, lim_key,
                lim_allowed, lim_follows, lim_reset>>

checkVars == <<cr_now, cr_requests, cr_last_cleanup, cr_last>>

\* the state of the parts added around the core
httpVars == <<http_input, http_result>>

streamVars == <<sse_lines, sse_yielded>>

storageVars == <<st_today, st_session, st_files, st_last>>

timeoutVars == <<et_pc, et_attempt, et_workers, et_pending, et_out>>

recoveryVars == <<sp_restored, sp_complete>>

extraVars == <<checkVars, httpVars, streamVars, storageVars, timeoutVars, recoveryVars>>

utilVars == <<validateVars, lockVars, fileVars, limiterVars, extraVars>>

\* what the steps of the file lock, of safe_write_json and of the rate
\* limiter leave alone
lockFrame == <<engineVars, evalVars, validateVars, fileVars, limiterVars, extraVars>>

saveFrame == <<engineVars, evalVars, validateVars, thread_lock, marker, expired,
               overstayed, limiterVars, extraVars>>

limiterFrame == <<engineVars, evalVars, validateVars, lockVars, fileVars, extraVars>>

coreVars == <<engineVars, evalVars, validateVars, lockVars, fileVars, limiterVars>>

checkFrame == <<coreVars, httpVars, streamVars, storageVars, timeoutVars, recoveryVars>>

httpFrame == <<coreVars, checkVars, streamVars, storageVars, timeoutVars, recoveryVars>>

streamFrame == <<coreVars, checkVars, httpVars, storageVars, timeoutVars, recoveryVars>>

storageFrame == <<coreVars, checkVars, httpVars, streamVars, timeoutVars, recoveryVars>>

timeoutFrame == <<coreVars, checkVars, httpVars, streamVars, storageVars, recoveryVars>>

recoveryFrame == <<coreVars, checkVars, httpVars, streamVars, timeoutVars>>

vars == <<session, is_started, is_ended, test_mode, test_mode_triggered,
          conversation, start_called, gen_calls, last_call,
          eval_pc, eval_input, eval_trace, evaluation, utilVars>>

None == "None"

-----------------------------------------------------------------------------
(* Settings and fixed texts *)

\* Settings.MAX_INTERVIEW_TURNS (environment-configurable, default 50)
MAX_INTERVIEW_TURNS == 2

\* SessionStatus
PENDING == "pending"
IN_PROGRESS == "in_progress"
COMPLETED == "completed"
TERMINATED == "terminated"

\* MessageRole
USER == "user"
MODEL == "model"

\* TERMINATION_KEYWORDS; the first keyword is several tokens long so that it
\* can straddle a chunk boundary
TERMINATION_KEYWORDS ==
    { <<"thank_you_for_your_time", ",", "i_have_understood_your_basic_situation">>,
      <<"system_is_generating_the_evaluation_result">>,
      <<"the_interview_ends_here">>,
      <<"we_will_contact_you_after_an_overall_assessment">> }

\* STANDARD_RESPONSES["interview_end_normal"]
INTERVIEW_END_NORMAL == <<"thank_you_for_taking_part", "hr_will_contact_you_within_3_working_days">>

\* STANDARD_RESPONSES["security_response"]
SECURITY_RESPONSE == <<"this_information_cannot_be_disclosed">>

\* end_msg of the test-mode /stop branch of chat()
TEST_MODE_END_MSG == <<"[test_mode]", "interview_has_ended,", "system_is_generating_S_tier_evaluation_result", "...">>

\* end_msg of the turn-limit branch of chat()
TURN_LIMIT_END_MSG ==
    <<"thank_you_for_your_time", ",", "i_have_understood_your_basic_situation", ".",
      "please_wait,", "system_is_generating_the_evaluation_result", "...">>

\* the trigger text start_interview() sends as the only content
START_TRIGGER == <<"please_start_the_interview">>

-----------------------------------------------------------------------------
(* Text helpers *)

\* Python: keyword in response
Contains(s, k) ==
    \E i \in 0..(Len(s) - Len(k)) : SubSeq(s, i + 1, i + Len(k)) = k

\* should_terminate by equality instead of substring search
should_terminate_exact(response) ==
    response \in TERMINATION_KEYWORDS

\* core/prompts.py should_terminate
should_terminate(response) ==
    \E keyword \in TERMINATION_KEYWORDS : Contains(response, keyword)

IsSpace(tok) == tok \in {" ", "\n"}

\* str.strip(): drop leading and trailing whitespace
RECURSIVE LStrip(_)
LStrip(s) == IF s # <<>> /\ IsSpace(Head(s)) THEN LStrip(Tail(s)) ELSE s

RECURSIVE RStrip(_)
RStrip(s) ==
    IF s # <<>> /\ IsSpace(s[Len(s)]) THEN RStrip(SubSeq(s, 1, Len(s) - 1)) ELSE s

Strip(s) == RStrip(LStrip(s))

\* str.lower() on the tokens of the input alphabet
LowerTok(tok) ==
    IF tok = "/STOP" THEN "/stop" ELSE tok

Lower(s) == [i \in 1..Len(s) |-> LowerTok(s[i])]

\* chat(): user_message.strip().lower() == "/stop"
IsStopCommand(user_message) == Lower(Strip(user_message)) = <<"/stop">>

-----------------------------------------------------------------------------
(* InterviewSession *)

Message(role, content) == [role |-> role, content |-> content]

NewSession(candidate_name) ==
    [candidate_name |-> candidate_name, chat_history |-> <<>>, turn_count |-> 0,
     status |-> PENDING, thought_signature |-> None, ended_at |-> None]

\* add_message counting every message as a turn
add_message_any_role(s, role, content) ==
    [s EXCEPT !.chat_history = Append(@, Message(role, content)),
              !.turn_count = @ + 1]

\* InterviewSession.add_message
add_message(s, role, content) ==
    [s EXCEPT !.chat_history = Append(@, Message(role, content)),
              !.turn_count = IF role = USER THEN @ + 1 ELSE @]

\* end_session forgetting the status
end_session_keeps_status(s, status) ==
    [s EXCEPT !.ended_at = "set"]

\* InterviewSession.end_session
end_session(s, status) ==
    [s EXCEPT !.status = status, !.ended_at = "set"]

\* number of candidate messages of a history
RECURSIVE CountRole(_, _)
CountRole(h, role) ==
    IF h = <<>> THEN 0
    ELSE (IF Head(h).role = role THEN 1 ELSE 0) + CountRole(Tail(h), role)

-----------------------------------------------------------------------------
(* ConversationManager *)

NewConversation == [history |-> <<>>, thought_signature |-> None]

\* a manager that does not replay the candidate's message
user_message_dropped(c, text) == c

add_user_message(c, text) ==
    [c EXCEPT !.history = Append(@, Message(USER, text))]

add_model_message(c, text) ==
    [c EXCEPT !.history = Append(@, Message(MODEL, text))]

-----------------------------------------------------------------------------
(* The generation service as the engine sees it: stream_generate yields    *)
(* (chunk, signature) elements; text elements carry no signature and the   *)
(* last element, if any, carries the new signature with an empty chunk.    *)

Elem(chunk, signature) == [chunk |-> chunk, signature |-> signature]

StreamResults ==
    { << Elem(<<"question">>, None), Elem(<<>>, "sigA") >>,
      << Elem(<<"tell_me">>, None), Elem(<<"more">>, None) >>,
      << Elem(<<"ok.", "thank_you_for_your_time", ",">>, None),
         Elem(<<"i_have_understood_your_basic_situation">>, None),
         Elem(<<>>, "sigB") >> }

OnlyText(elems, k) == \A j \in 1..k : elems[j].signature = None

\* A run of one streaming call: the elements the service would produce, how
\* the call ends, and how many elements the engine's loop has processed then.
\*   complete: the caller pulls the generator to exhaustion
\*   error:    _request_with_retry or iter_lines raises GeminiAPIError
\*   abandon:  the caller stops pulling after a yielded chunk
StreamRuns ==
    { r \in [elems : StreamResults, kind : {"complete", "error", "abandon"}, k : 0..3] :
        /\ r.k <= Len(r.elems)
        /\ r.kind = "complete" => r.k = Len(r.elems)
        /\ r.kind = "error" => r.k <= 1 /\ OnlyText(r.elems, r.k)
        /\ r.kind = "abandon" =>
              /\ r.k = 1
              /\ OnlyText(r.elems, r.k)
              /\ r.elems[r.k].chunk # <<>> }

\* the loop "for chunk, signature in stream_generate(...)" of start_interview
\* and chat: accumulates full_response and keeps the last truthy signature
RECURSIVE ConsumeStream(_, _, _, _)
ConsumeStream(elems, full, sig, yielded) ==
    IF elems = <<>>
    THEN [full_response |-> full, signature |-> sig, yielded |-> yielded]
    ELSE LET e == Head(elems)
         IN ConsumeStream(Tail(elems),
                          IF e.chunk # <<>> THEN full \o e.chunk ELSE full,
                          IF e.signature # None THEN e.signature ELSE sig,
                          IF e.chunk # <<>> THEN Append(yielded, e.chunk) ELSE yielded)

\* the signature the consumed elements brought, None when they brought none
ReturnedToken(elems) == ConsumeStream(elems, <<>>, None, <<>>).signature

\* chat(): self.session.thought_signature = self.conversation.thought_signature
\* left out
TokenNotStored(s, c) == s.thought_signature

\* chat(): self.session.thought_signature = self.conversation.thought_signature
StoredToken(s, c) == c.thought_signature

\* the texts a candidate may send
UserInputs ==
    { <<"answer">>, <<"/stop">>, <<" ", "/STOP", "\n">> }

Call(op, raised, gen, yielded) ==
    [op |-> op, raised |-> raised, gen |-> gen, yielded |-> yielded,
     carried |-> None, returned |-> None, contents |-> <<>>]

\* a call that issued a stream_generate call: the thought_signature argument
\* it passed and the signature the elements it consumed brought
GenCall(op, raised, yielded, carried, returned, contents) ==
    [op |-> op, raised |-> raised, gen |-> 1, yielded |-> yielded,
     carried |-> carried, returned |-> returned, contents |-> contents]

-----------------------------------------------------------------------------
(* EvaluatorEngine *)

\* MAX_RETRIES of core/evaluator.py
MAX_RETRIES == 2

\* Settings: scoring thresholds
S_TIER_THRESHOLD == 90
A_TIER_THRESHOLD == 80
B_TIER_THRESHOLD == 60

\* Settings.S_TIER_DEFAULT_NOTIFICATION, Settings.DEFAULT_NOTIFICATION
S_TIER_DEFAULT_NOTIFICATION == <<"congratulations", "we_invite_you_to_talk_to_the_cto">>
DEFAULT_NOTIFICATION == <<"thank_you_for_your_time", ",", "hr_will_contact_you_soon">>

\* An optional value (a dict key that may be missing, an Optional field):
\* Absent, or Some(x)
Absent == <<>>
Some(x) == <<x>>
Get(opt, default) == IF opt = Absent THEN default ELSE opt[1]

NoTrace == [attempts |-> 0, backoff |-> <<>>]

\* InterviewSession.get_chat_history_text: "label: content" per message,
\* joined by blank lines
RECURSIVE get_chat_history_text(_)
get_chat_history_text(h) ==
    IF h = <<>> THEN <<>>
    ELSE LET msg == Head(h)
             line == <<IF msg.role = MODEL THEN "interviewer" ELSE "candidate", ": ">>
                        \o msg.content
         IN IF Tail(h) = <<>> THEN line
            ELSE line \o <<"\n\n">> \o get_chat_history_text(Tail(h))

\* EvaluationResult.from_json: the tier string is mapped to the enum (C when
\* unknown), missing keys get their defaults, and the field constraints
\* (scores within 0..100) are validated
InRange(x) == x \in 0..100

from_json_valid(data) ==
    /\ InRange(Get(data.total_score, 0))
    /\ \A f \in {"skill_match_score", "communication_score", "remote_readiness_score"} :
          data[f] = Absent \/ InRange(data[f][1])

from_json(data) ==
    [candidate_name |-> Get(data.candidate_name, "Unknown"),
     total_score |-> Get(data.total_score, 0),
     decision_tier |-> IF Get(data.decision_tier, "C") \in {"S", "A", "B", "C"}
                       THEN Get(data.decision_tier, "C") ELSE "C",
     is_pass |-> Get(data.is_pass, FALSE),
     skill_match_score |-> data.skill_match_score,
     communication_score |-> data.communication_score,
     remote_readiness_score |-> data.remote_readiness_score,
     key_strengths |-> Get(data.key_strengths, <<>>),
     red_flags |-> Get(data.red_flags, <<>>),
     summary |-> Get(data.summary, <<>>),
     notification_text |-> Get(data.notification_text, <<>>)]

Max(a, b) == IF a >= b THEN a ELSE b
Min(a, b) == IF a <= b THEN a ELSE b

\* the tier branch of _validate_scores
TierOf(total_score) ==
    IF total_score >= S_TIER_THRESHOLD THEN "S"
    ELSE IF total_score >= A_TIER_THRESHOLD THEN "A"
    ELSE IF total_score >= B_TIER_THRESHOLD THEN "B"
    ELSE "C"

\* a score taken as the model gave it
Unclamped(x) == x

\* total_score = max(0, min(100, total_score))
Clamp(x) == Max(0, Min(100, x))

\* the notification text _validate_scores leaves for a tier
NotificationFor(tier, text) ==
    IF tier = "S"
    THEN IF text = Absent \/ Contains(Get(text, <<>>), <<"thank_you_for_your_time">>)
         THEN Some(S_TIER_DEFAULT_NOTIFICATION) ELSE text
    ELSE IF text = Absent \/ Strip(Get(text, <<>>)) = <<>>
         THEN Some(DEFAULT_NOTIFICATION) ELSE text

\* the fields _validate_scores rewrites, for the clamped score and its tier
Validated(data, total_score, tier) ==
    [data EXCEPT
        !.total_score = Some(total_score),
        !.decision_tier = Some(tier),
        !.is_pass = Some(tier # "C"),
        !.key_strengths = IF @ = Absent \/ @ = Some(<<>>)
                          THEN Some(<< <<"to_be_evaluated_further">> >>) ELSE @,
        !.red_flags = IF @ = Absent THEN Some(<<>>) ELSE @,
        !.summary = IF @ = Absent \/ @ = Some(<<>>)
                    THEN Some(<<"overall_score", ToString(total_score), "tier", tier>>)
                    ELSE @,
        !.notification_text = NotificationFor(tier, @)]

\* EvaluatorEngine._validate_scores
_validate_scores(data) ==
    Validated(data, Clamp(Get(data.total_score, 0)),
              TierOf(Clamp(Get(data.total_score, 0))))

\* no EvaluationResult
NoResult == [candidate_name |-> None]

\* the scores of the two scripted results
FALLBACK_SCORE == 50
TEST_MODE_SCORE == 95

\* EvaluatorEngine._create_fallback_evaluation
_create_fallback_evaluation(s, error_message) ==
    from_json(
        [candidate_name |-> Some(IF s.candidate_name # None THEN s.candidate_name ELSE "Unknown"),
         total_score |-> Some(FALLBACK_SCORE),
         decision_tier |-> Some("B"),
         is_pass |-> Some(TRUE),
         skill_match_score |-> Some(FALLBACK_SCORE),
         communication_score |-> Some(FALLBACK_SCORE),
         remote_readiness_score |-> Some(FALLBACK_SCORE),
         key_strengths |-> Some(<< <<"needs_manual_review">> >>),
         red_flags |-> Some(<< <<"automatic_evaluation_failed", ": ">> \o error_message >>),
         summary |-> Some(<<"automatic_evaluation_not_completed", "hr_should_review_manually">>),
         notification_text |-> Some(<<"thank_you_for_attending", "hr_will_contact_you_soon">>)])

\* EvaluatorEngine.create_test_mode_evaluation
create_test_mode_evaluation(s) ==
    from_json(
        [candidate_name |-> Some(IF s.candidate_name # None THEN s.candidate_name ELSE "test_user"),
         total_score |-> Some(TEST_MODE_SCORE),
         decision_tier |-> Some("S"),
         is_pass |-> Some(TRUE),
         skill_match_score |-> Some(TEST_MODE_SCORE),
         communication_score |-> Some(TEST_MODE_SCORE),
         remote_readiness_score |-> Some(TEST_MODE_SCORE),
         key_strengths |-> Some(<< <<"[test_mode]", "generated_S_tier_evaluation">>,
                                   <<"strong_technical_skills">>,
                                   <<"clear_communication">> >>),
         red_flags |-> Some(<<>>),
         summary |-> Some(<<"[test_mode]", "triggered_by_/stop">>),
         notification_text |-> Some(S_TIER_DEFAULT_NOTIFICATION)])

\* What one evaluation attempt meets:
\*   ok         generate() returns text holding the dict data; form tells how
\*              the JSON is wrapped (json: pure, fenced: in a code block,
\*              garbage: not recoverable)
\*   api_error  generate() raises GeminiAPIError (transport failure after the
\*              client's own retries, empty candidates, safety block, empty text)
\*   timeout    future.result(timeout) raises TimeoutError
\*   other_error  the call raises an exception of any other class
RawData(score, tier, pass, skill, strengths, notification) ==
    [candidate_name |-> Some("alice"), total_score |-> Some(score),
     decision_tier |-> Some(tier), is_pass |-> Some(pass),
     skill_match_score |-> skill, communication_score |-> Absent,
     remote_readiness_score |-> Absent, key_strengths |-> strengths,
     red_flags |-> Absent, summary |-> Absent, notification_text |-> notification]

NoData == RawData(0, "C", FALSE, Absent, Absent, Absent)

Ok(form, data) == [kind |-> "ok", form |-> form, data |-> data, message |-> <<>>]
ApiError(message) == [kind |-> "api_error", form |-> None, data |-> NoData, message |-> message]
Timeout == [kind |-> "timeout", form |-> None, data |-> NoData, message |-> <<>>]
OtherError(message) == [kind |-> "other_error", form |-> None, data |-> NoData, message |-> message]

TRANSPORT_ERROR == <<"Max retries exceeded", ": ", "connection_refused">>

GoodAnswer == Ok("json", RawData(150, "C", FALSE, Some(70), Some(<<>>), Absent))

AttemptOutcomes ==
    { GoodAnswer,
      Ok("fenced", RawData(55, "S", TRUE, Absent, Some(<< <<"go">> >>), Some(<<"custom_message">>))),
      Ok("json", RawData(85, "A", TRUE, Some(120), Some(<< <<"go">> >>), Some(<<" ">>))),
      Ok("garbage", NoData),
      ApiError(TRANSPORT_ERROR),
      Timeout,
      OtherError(<<"unexpected">>) }

\* json.loads, then _extract_json: whether a dict comes out of the text
Parses(o) == o.form \in {"json", "fenced"}

\* str() of the exception an attempt ends with
TIMEOUT_MESSAGE == <<"evaluation_timed_out">>
PARSE_MESSAGE == <<"Failed to parse evaluation JSON">>
VALIDATION_MESSAGE == <<"validation error for EvaluationResult">>

\* EvaluatorEngine._do_evaluate under _evaluate_with_timeout: the result, or
\* the exception the attempt raises
Failed(raised, message) ==
    [raised |-> raised, message |-> message, result |-> NoResult, named |-> None]

\* _do_evaluate once the data is validated: the result, and the name the
\* session takes from it when it has none
Succeeded(s, result) ==
    [raised |-> None, message |-> <<>>, result |-> result,
     named |-> IF s.candidate_name = None /\ result.candidate_name # "Unknown"
               THEN result.candidate_name ELSE None]

FromValidated(s, v) ==
    IF from_json_valid(v) THEN Succeeded(s, from_json(v))
    ELSE Failed("ValidationError", VALIDATION_MESSAGE)

Attempt(s, o) ==
    IF o.kind = "timeout" THEN Failed("TimeoutError", TIMEOUT_MESSAGE)
    ELSE IF o.kind = "api_error" THEN Failed("GeminiAPIError", o.message)
    ELSE IF o.kind = "other_error" THEN Failed("Exception", o.message)
    ELSE IF ~Parses(o) THEN Failed("ValueError", PARSE_MESSAGE)
    ELSE FromValidated(s, _validate_scores(o.data))

\* 2 ** attempt
RECURSIVE Pow2(_)
Pow2(n) == IF n = 0 THEN 1 ELSE 2 * Pow2(n - 1)

\* a loop that goes on after any exception
RetryableAny(raised) == TRUE

\* the except clauses of evaluate(): which exceptions let the loop go on
Retryable(raised) == raised \in {"TimeoutError", "GeminiAPIError"}

\* evaluate() re-raising the last error once the loop is over
ExhaustedReraises(s, last_message, attempts, backoff) ==
    [raised |-> "GeminiAPIError", result |-> NoResult,
     attempts |-> attempts, backoff |-> backoff, named |-> None]

\* what evaluate() does once the loop is over without a result
Exhausted(s, last_message, attempts, backoff) ==
    [raised |-> None, result |-> _create_fallback_evaluation(s, last_message),
     attempts |-> attempts, backoff |-> backoff, named |-> None]

\* the retry loop of EvaluatorEngine.evaluate, from attempt number attempt on
RECURSIVE evaluate_loop(_, _, _, _, _)

\* one turn of the loop, a being what the attempt ended with
AfterAttempt(s, outcomes, attempt, backoff, a) ==
    IF a.raised = None
    THEN [raised |-> None, result |-> a.result,
          attempts |-> attempt + 1, backoff |-> backoff, named |-> a.named]
    ELSE IF Retryable(a.raised)
    THEN evaluate_loop(s, outcomes, attempt + 1, a.message,
                       IF a.raised = "GeminiAPIError" /\ attempt < MAX_RETRIES
                       THEN Append(backoff, Pow2(attempt)) ELSE backoff)
    ELSE Exhausted(s, a.message, attempt + 1, backoff)

evaluate_loop(s, outcomes, attempt, last_message, backoff) ==
    IF attempt > MAX_RETRIES
    THEN Exhausted(s, last_message, attempt, backoff)
    ELSE AfterAttempt(s, outcomes, attempt, backoff, Attempt(s, outcomes[attempt + 1]))

\* evaluate() without its check of the transcript
EmptyTranscriptAccepted(s) == FALSE

\* evaluate(): "if not chat_history"
EmptyTranscript(s) == get_chat_history_text(s.chat_history) = <<>>

\* EvaluatorEngine.evaluate
evaluate(s, outcomes) ==
    IF EmptyTranscript(s)
    THEN [raised |-> "ValueError", result |-> NoResult, attempts |-> 0, backoff |-> <<>>,
          named |-> None]
    ELSE evaluate_loop(s, outcomes, 0, <<>>, <<>>)

-----------------------------------------------------------------------------
(* InterviewerEngine *)

\* InterviewerEngine.can_continue
can_continue ==
    is_started /\ ~is_ended /\ session.turn_count < MAX_INTERVIEW_TURNS

\* InterviewerEngine.should_evaluate
should_evaluate ==
    is_ended /\ session.status \in {COMPLETED, TERMINATED}

\* start_interview() without its guard
StartNeverRefused == FALSE

\* start_interview() refuses to run twice
StartRefused == is_started

\* start_interview() going through the conversation manager: the trigger
\* message stays in the replayed history
TriggerKept(c, full_response) ==
    add_model_message(add_user_message(c, START_TRIGGER), full_response)

\* start_interview(): the conversation history starts with the greeting only
GreetingOnly(c, full_response) == add_model_message(c, full_response)

\* InterviewerEngine.start_interview
StartInterview(run) ==
    /\ eval_pc = "idle"
    /\ start_called' = TRUE
    /\ IF StartRefused
       THEN /\ last_call' = Call("start_interview", "RuntimeError", 0, <<>>)
            /\ UNCHANGED <<session, is_started, is_ended, test_mode,
                           test_mode_triggered, conversation, gen_calls>>
       ELSE LET res == ConsumeStream(SubSeq(run.elems, 1, run.k), <<>>,
                                     session.thought_signature, <<>>)
                s1 == [session EXCEPT !.status = IN_PROGRESS,
                                      !.thought_signature = res.signature]
            IN /\ is_started' = TRUE
               /\ gen_calls' = gen_calls + 1
               /\ IF run.kind = "complete"
                  THEN /\ conversation' =
                            [GreetingOnly(conversation, res.full_response)
                                EXCEPT !.thought_signature = s1.thought_signature]
                       /\ session' = add_message(s1, MODEL, res.full_response)
                       /\ last_call' = GenCall("start_interview", None, res.yielded, None,
                                               ReturnedToken(SubSeq(run.elems, 1, run.k)),
                                               <<Message(USER, START_TRIGGER)>>)
                  ELSE /\ conversation' = conversation
                       /\ session' = s1
                       /\ last_call' = GenCall("start_interview",
                                               IF run.kind = "error" THEN "GeminiAPIError" ELSE "abandoned",
                                               res.yielded, None,
                                               ReturnedToken(SubSeq(run.elems, 1, run.k)),
                                               <<Message(USER, START_TRIGGER)>>)
               /\ UNCHANGED <<is_ended, test_mode, test_mode_triggered>>
    /\ UNCHANGED evalVars
    /\ UNCHANGED utilVars

\* chat() without its is_started guard
ChatStartNotChecked == FALSE

\* chat() on an engine that was never started
ChatNotStarted == ~is_started

\* chat() without its is_ended guard
ChatEndNotChecked == FALSE

\* chat() on an engine that has ended
ChatAlreadyEnded == is_ended

\* the /stop fast path taken whatever the test mode
ChatStopAlways(user_message) == IsStopCommand(user_message)

\* chat(): the /stop fast path
ChatTestStop(user_message) == test_mode /\ IsStopCommand(user_message)

\* the turn limit check off by one
TurnLimitExceeded(s) == s.turn_count > MAX_INTERVIEW_TURNS

\* chat(): the turn limit check after the candidate message is saved
TurnLimitReached(s) == s.turn_count >= MAX_INTERVIEW_TURNS

\* chat(): the stream raised; what was received of the reply is appended as
\* a model message all the same
PartialReplyKept(s, res) == add_message(s, MODEL, res.full_response)

\* chat(): the stream raised or was abandoned before the reply was complete;
\* lines 188-197 never run and the session stays as the candidate's
\* message left it
AfterBrokenStream(s, res) == s

\* InterviewerEngine.chat
Chat(user_message, run) ==
    /\ eval_pc = "idle"
    /\ UNCHANGED <<test_mode, is_started, start_called>>
    /\ IF ChatNotStarted
       THEN /\ last_call' = Call("chat", "RuntimeError", 0, <<>>)
            /\ UNCHANGED <<session, is_ended, test_mode_triggered, conversation, gen_calls>>
       ELSE IF ChatAlreadyEnded
       THEN /\ last_call' = Call("chat", None, 0, <<INTERVIEW_END_NORMAL>>)
            /\ UNCHANGED <<session, is_ended, test_mode_triggered, conversation, gen_calls>>
       ELSE IF ChatTestStop(user_message)
       THEN /\ session' = end_session(add_message(session, USER, user_message), COMPLETED)
            /\ is_ended' = TRUE
            /\ test_mode_triggered' = TRUE
            /\ last_call' = Call("chat", None, 0, <<TEST_MODE_END_MSG>>)
            /\ UNCHANGED <<conversation, gen_calls>>
       ELSE LET s1 == add_message(session, USER, user_message)
            IN IF TurnLimitReached(s1)
               THEN /\ session' = end_session(s1, COMPLETED)
                    /\ is_ended' = TRUE
                    /\ last_call' = Call("chat", None, 0, <<TURN_LIMIT_END_MSG>>)
                    /\ UNCHANGED <<test_mode_triggered, conversation, gen_calls>>
               ELSE LET c1 == add_user_message(
                                  [conversation EXCEPT !.thought_signature = s1.thought_signature],
                                  user_message)
                        res == ConsumeStream(SubSeq(run.elems, 1, run.k), <<>>,
                                             c1.thought_signature, <<>>)
                        c2 == [c1 EXCEPT !.thought_signature = res.signature]
                    IN /\ gen_calls' = gen_calls + 1
                       /\ UNCHANGED test_mode_triggered
                       /\ IF run.kind = "complete"
                          THEN LET c3 == add_model_message(c2, res.full_response)
                                   s2 == [add_message(s1, MODEL, res.full_response)
                                             EXCEPT !.thought_signature = StoredToken(s1, c3)]
                               IN /\ conversation' = c3
                                  /\ last_call' = GenCall("chat", None, res.yielded,
                                                          c1.thought_signature,
                                                          ReturnedToken(SubSeq(run.elems, 1, run.k)),
                                                          c1.history)
                                  /\ IF should_terminate(res.full_response)
                                     THEN /\ is_ended' = TRUE
                                          /\ session' = end_session(s2, COMPLETED)
                                     ELSE /\ is_ended' = is_ended
                                          /\ session' = s2
                          ELSE /\ conversation' = c2
                               /\ session' = AfterBrokenStream(s1, res)
                               /\ is_ended' = is_ended
                               /\ last_call' = GenCall("chat",
                                                       IF run.kind = "error" THEN "GeminiAPIError" ELSE "abandoned",
                                                       res.yielded, c1.thought_signature,
                                                       ReturnedToken(SubSeq(run.elems, 1, run.k)),
                                                       c1.history)
    /\ UNCHANGED evalVars
    /\ UNCHANGED utilVars

\* InterviewerEngine.force_end
ForceEnd(reason) ==
    /\ eval_pc = "idle"
    /\ is_ended' = TRUE
    /\ session' = end_session(session, TERMINATED)
    /\ last_call' = Call("force_end", None, 0,
                         <<IF reason = "security" THEN SECURITY_RESPONSE ELSE INTERVIEW_END_NORMAL>>)
    /\ UNCHANGED <<is_started, test_mode, test_mode_triggered, conversation,
                   start_called, gen_calls>>
    /\ UNCHANGED evalVars
    /\ UNCHANGED utilVars

\* the history restore_interviewer replays into the ConversationManager
RECURSIVE RestoreHistory(_, _)
RestoreHistory(messages, c) ==
    IF messages = <<>> THEN c
    ELSE LET msg == Head(messages)
         IN RestoreHistory(Tail(messages),
                           IF msg.role = USER THEN add_user_message(c, msg.content)
                           ELSE IF msg.role = MODEL THEN add_model_message(c, msg.content)
                           ELSE c)

\* restore_interviewer: a new engine over the existing session
RestoreInterviewer(tm) ==
    /\ eval_pc = "idle"
    /\ test_mode' = tm
    /\ is_started' = TRUE
    /\ is_ended' = (session.status \in {COMPLETED, TERMINATED})
    /\ test_mode_triggered' = FALSE
    /\ start_called' = FALSE
    /\ conversation' =
          LET c == RestoreHistory(session.chat_history, NewConversation)
          IN IF session.thought_signature # None
             THEN [c EXCEPT !.thought_signature = session.thought_signature]
             ELSE c
    /\ last_call' = Call("restore_interviewer", None, 0, <<>>)
    /\ UNCHANGED <<session, gen_calls>>
    /\ UNCHANGED evalVars
    /\ UNCHANGED utilVars

-----------------------------------------------------------------------------
(* Evaluation of a session *)

EvalInputs == [1..(MAX_RETRIES + 1) -> AttemptOutcomes]

\* the answers of the generation service met by the evaluations of the
\* interview specification
EngineEvalInputs ==
    { [i \in 1..(MAX_RETRIES + 1) |-> ApiError(TRANSPORT_ERROR)],
      [i \in 1..(MAX_RETRIES + 1) |->
          IF i = 1 THEN Timeout ELSE GoodAnswer] }

\* the effect of one evaluate() call on the state
ApplyEvaluate(r, outcomes) ==
    /\ eval_pc' = IF r.raised # None THEN "raised" ELSE "returned"
    /\ evaluation' = r.result
    /\ eval_trace' = [attempts |-> r.attempts, backoff |-> r.backoff]
    /\ eval_input' = outcomes
    /\ session' = IF r.named # None THEN [session EXCEPT !.candidate_name = r.named]
                  ELSE session

\* a direct call of EvaluatorEngine.evaluate(session)
Evaluate(outcomes) ==
    /\ eval_pc = "idle"
    /\ ApplyEvaluate(evaluate(session, outcomes), outcomes)
    /\ last_call' = Call("evaluate", evaluate(session, outcomes).raised, 0, <<>>)
    /\ UNCHANGED <<is_started, is_ended, test_mode, test_mode_triggered,
                   conversation, start_called, gen_calls>>
    /\ UNCHANGED utilVars

\* app.py run_evaluation, entered once the engine reports should_evaluate
RunEvaluation(outcomes) ==
    /\ eval_pc = "idle"
    /\ should_evaluate
    /\ IF test_mode_triggered
       THEN /\ evaluation' = create_test_mode_evaluation(session)
            /\ eval_pc' = "returned"
            /\ eval_trace' = NoTrace
            /\ eval_input' = <<>>
            /\ session' = session
            /\ last_call' = Call("run_evaluation", None, 0, <<>>)
       ELSE /\ ApplyEvaluate(evaluate(session, outcomes), outcomes)
            /\ last_call' = Call("run_evaluation", evaluate(session, outcomes).raised, 0, <<>>)
    /\ UNCHANGED <<is_started, is_ended, test_mode, test_mode_triggered,
                   conversation, start_called, gen_calls>>
    /\ UNCHANGED utilVars

-----------------------------------------------------------------------------
(* _validate_scores on its own: every raw score, tier and is_pass the model  *)
(* may claim                                                               *)

\* how far below 0 and above 100 the raw scores go
ScoreMargin == 3

RawTiers == {"S", "A", "B", "C", "X"}

\* the notification_text of the raw answer: missing, empty, whitespace, the
\* generic thank-you text, a message of its own
RawNotifications ==
    { Absent, Some(<<>>), Some(<<" ", "\n">>),
      Some(<<"thank_you_for_your_time", ",", "we_will_be_in_touch">>),
      Some(<<"custom_message">>) }

RawInputs ==
    { RawData(score, tier, pass, Absent, Absent, notification) :
        score \in (0 - ScoreMargin)..(100 + ScoreMargin),
        tier \in RawTiers, pass \in BOOLEAN, notification \in RawNotifications }

ValidateIdle ==
    /\ raw_data = NoData
    /\ validated = Absent

\* data = self._validate_scores(data)
ValidateScores ==
    /\ validated = Absent
    /\ validated' = Some(_validate_scores(raw_data))
    /\ UNCHANGED raw_data

-----------------------------------------------------------------------------
(* FileLock on one target path.  Callers are threads: a1 and a2 run in     *)
(* process a, b1 in process b.  Every system call of acquire() and         *)
(* release() is one step.  Time is seen through its two effects: a         *)
(* caller's wait bound running out (time.time() - start_time reaching      *)
(* timeout, which happens while the caller is blocked or asleep) and the   *)
(* marker's age passing max_age.                                           *)

Callers == {"a1", "a2", "b1"}
Procs == {"a", "b"}
Proc(c) == IF c = "b1" THEN "b" ELSE "a"

\* the .lock file
NoMarker == [exists |-> FALSE, creator |-> None, stale |-> FALSE]
Marker(c) == [exists |-> TRUE, creator |-> c, stale |-> FALSE]

\* where a caller is inside the body of "with file_lock(path)"
BodyPcs == {"held", "dump", "rename", "cleanup"}
InBody(c) == lk_pc[c] \in BodyPcs

LockInit ==
    /\ lk_pc = [c \in Callers |-> "idle"]
    /\ thread_lock = [p \in Procs |-> None]
    /\ marker = NoMarker
    /\ expired = [c \in Callers |-> FALSE]
    /\ overstayed = FALSE

Goto(c, pc) == lk_pc' = [lk_pc EXCEPT ![c] = pc]

\* self._thread_lock.release()
ThreadRelease(c) == thread_lock' = [thread_lock EXCEPT ![Proc(c)] = None]

\* FileLock(path, timeout); start_time = time.time()
StartAcquire(c) ==
    /\ lk_pc[c] = "idle"
    /\ Goto(c, "thread_wait")
    /\ expired' = [expired EXCEPT ![c] = FALSE]
    /\ UNCHANGED <<thread_lock, marker, overstayed>>
    /\ UNCHANGED lockFrame

\* the wait bound of the caller runs out, while it is blocked on the thread
\* lock or asleep
Expire(c) ==
    /\ \/ lk_pc[c] = "thread_wait" /\ thread_lock[Proc(c)] # None
       \/ lk_pc[c] = "sleep"
    /\ ~expired[c]
    /\ expired' = [expired EXCEPT ![c] = TRUE]
    /\ UNCHANGED <<lk_pc, thread_lock, marker, overstayed>>
    /\ UNCHANGED lockFrame

\* self._thread_lock.acquire(timeout=self.timeout) returns True
ThreadAcquire(c) ==
    /\ lk_pc[c] = "thread_wait"
    /\ thread_lock[Proc(c)] = None
    /\ thread_lock' = [thread_lock EXCEPT ![Proc(c)] = c]
    /\ Goto(c, "remaining")
    /\ UNCHANGED <<marker, expired, overstayed>>
    /\ UNCHANGED lockFrame

\* self._thread_lock.acquire(timeout=self.timeout) returns False
ThreadTimeout(c) ==
    /\ lk_pc[c] = "thread_wait"
    /\ thread_lock[Proc(c)] # None
    /\ expired[c]
    /\ Goto(c, "failed")
    /\ UNCHANGED <<thread_lock, marker, expired, overstayed>>
    /\ UNCHANGED lockFrame

\* if remaining_timeout <= 0: release the thread lock, return False
Remaining(c) ==
    /\ lk_pc[c] = "remaining"
    /\ IF expired[c]
       THEN ThreadRelease(c) /\ Goto(c, "failed")
       ELSE Goto(c, "loop") /\ UNCHANGED thread_lock
    /\ UNCHANGED <<marker, expired, overstayed>>
    /\ UNCHANGED lockFrame

\* while time.time() - start_time < self.timeout; after the loop: release
\* the thread lock, return False
LoopTest(c) ==
    /\ lk_pc[c] = "loop"
    /\ IF expired[c]
       THEN ThreadRelease(c) /\ Goto(c, "failed")
       ELSE Goto(c, "open") /\ UNCHANGED thread_lock
    /\ UNCHANGED <<marker, expired, overstayed>>
    /\ UNCHANGED lockFrame

\* os.open(O_CREAT | O_EXCL) creates the marker, os.write succeeds: return True
OpenCreated(c) ==
    /\ lk_pc[c] = "open"
    /\ ~marker.exists
    /\ marker' = Marker(c)
    /\ Goto(c, "held")
    /\ UNCHANGED <<thread_lock, expired, overstayed>>
    /\ UNCHANGED lockFrame

\* os.open creates the marker, os.write raises OSError: caught, sleep, retry
OpenWriteFails(c) ==
    /\ lk_pc[c] = "open"
    /\ ~marker.exists
    /\ marker' = Marker(c)
    /\ Goto(c, "sleep")
    /\ UNCHANGED <<thread_lock, expired, overstayed>>
    /\ UNCHANGED lockFrame

\* os.open raises FileExistsError
OpenExists(c) ==
    /\ lk_pc[c] = "open"
    /\ marker.exists
    /\ Goto(c, "exists")
    /\ UNCHANGED <<thread_lock, marker, expired, overstayed>>
    /\ UNCHANGED lockFrame

\* os.open raises another OSError: caught, sleep, retry
OpenOSError(c) ==
    /\ lk_pc[c] = "open"
    /\ Goto(c, "sleep")
    /\ UNCHANGED <<thread_lock, marker, expired, overstayed>>
    /\ UNCHANGED lockFrame

\* _is_stale_lock: os.path.exists(self.lock_path)
StaleExists(c) ==
    /\ lk_pc[c] = "exists"
    /\ Goto(c, IF marker.exists THEN "getmtime" ELSE "sleep")
    /\ UNCHANGED <<thread_lock, marker, expired, overstayed>>
    /\ UNCHANGED lockFrame

\* a marker that is never found too old
AgeNeverExceeds == FALSE

\* _is_stale_lock: age > max_age
AgeExceeds == marker.stale

\* _is_stale_lock: os.path.getmtime and the age test; True when getmtime
\* raises OSError because the marker is gone
StaleMtime(c) ==
    /\ lk_pc[c] = "getmtime"
    /\ Goto(c, IF ~marker.exists \/ AgeExceeds THEN "remove_stale" ELSE "sleep")
    /\ UNCHANGED <<thread_lock, marker, expired, overstayed>>
    /\ UNCHANGED lockFrame

\* _remove_stale_lock: os.remove(self.lock_path), OSError ignored; continue
RemoveStale(c) ==
    /\ lk_pc[c] = "remove_stale"
    /\ marker' = NoMarker
    /\ Goto(c, "loop")
    /\ UNCHANGED <<thread_lock, expired, overstayed>>
    /\ UNCHANGED lockFrame

\* time.sleep(0.1)
Sleep(c) ==
    /\ lk_pc[c] = "sleep"
    /\ Goto(c, "loop")
    /\ UNCHANGED <<thread_lock, marker, expired, overstayed>>
    /\ UNCHANGED lockFrame

\* file_lock: acquire() returned False, TimeoutError is raised
RaiseTimeout(c) ==
    /\ lk_pc[c] = "failed"
    /\ Goto(c, "idle")
    /\ UNCHANGED <<thread_lock, marker, expired, overstayed>>
    /\ UNCHANGED lockFrame

\* a with body that only holds the lock
Leave(c) ==
    /\ lk_pc[c] = "held"
    /\ Goto(c, "release")
    /\ UNCHANGED <<thread_lock, marker, expired, overstayed>>
    /\ UNCHANGED lockFrame

\* release(): os.close, os.path.exists(self.lock_path)
ReleaseExists(c) ==
    /\ lk_pc[c] = "release"
    /\ Goto(c, IF marker.exists THEN "rel_remove" ELSE "rel_unlock")
    /\ UNCHANGED <<thread_lock, marker, expired, overstayed>>
    /\ UNCHANGED lockFrame

\* release(): os.remove(self.lock_path), OSError ignored
ReleaseRemove(c) ==
    /\ lk_pc[c] = "rel_remove"
    /\ marker' = NoMarker
    /\ Goto(c, "rel_unlock")
    /\ UNCHANGED <<thread_lock, expired, overstayed>>
    /\ UNCHANGED lockFrame

\* release(): finally self._thread_lock.release()
ReleaseUnlock(c) ==
    /\ lk_pc[c] = "rel_unlock"
    /\ ThreadRelease(c)
    /\ Goto(c, "idle")
    /\ UNCHANGED <<marker, expired, overstayed>>
    /\ UNCHANGED lockFrame

\* a process dies while one of its threads is in a with body: nothing is
\* released, the files stay as they are
Crash(p) ==
    /\ \E c \in Callers : Proc(c) = p /\ InBody(c)
    /\ lk_pc' = [c \in Callers |-> IF Proc(c) = p THEN "crashed" ELSE lk_pc[c]]
    /\ UNCHANGED <<thread_lock, marker, expired, overstayed>>
    /\ UNCHANGED lockFrame

\* the age of the marker passes max_age
Age ==
    /\ marker.exists
    /\ ~marker.stale
    /\ marker' = [marker EXCEPT !.stale = TRUE]
    /\ overstayed' = (overstayed \/ InBody(marker.creator)
                                 \/ lk_pc[marker.creator] = "crashed")
    /\ UNCHANGED <<lk_pc, thread_lock, expired>>
    /\ UNCHANGED lockFrame

\* the steps of acquire() and of file_lock's failure
AcquireStep(c) ==
    \/ ThreadAcquire(c)
    \/ ThreadTimeout(c)
    \/ Remaining(c)
    \/ LoopTest(c)
    \/ OpenCreated(c)
    \/ OpenWriteFails(c)
    \/ OpenExists(c)
    \/ OpenOSError(c)
    \/ StaleExists(c)
    \/ StaleMtime(c)
    \/ RemoveStale(c)
    \/ Sleep(c)
    \/ RaiseTimeout(c)

\* the steps of release()
ReleaseStep(c) ==
    \/ ReleaseExists(c)
    \/ ReleaseRemove(c)
    \/ ReleaseUnlock(c)

-----------------------------------------------------------------------------
(* safe_write_json and the loaders of StorageService on the target path:   *)
(* a1 and b1 save, a2 loads.  A JSON text is a sequence of the chunks that  *)
(* json.dump writes.                                                       *)

Savers == {"a1", "b1"}
Loaders == {"a2"}

TARGET == "target"
TempPath(c) == c
Paths == {TARGET} \cup {TempPath(c) : c \in Savers}

NoFile == [exists |-> FALSE, content |-> <<>>]
File(content) == [exists |-> TRUE, content |-> content]

\* json.dump(data): the chunks of the record a saver writes
RecordOf(c) == <<"{", c, "}">>
OLD_RECORD == <<"{", "old", "}">>

\* safe_write_json writing straight to the target path
WriteInPlace(c) == TARGET

\* the path safe_write_json writes to: tempfile.mkstemp(suffix=".tmp", dir=dir_path)
WritePath(c) == TempPath(c)

FilesInit ==
    /\ files \in { [p \in Paths |-> IF p = TARGET THEN t ELSE NoFile] :
                    t \in {NoFile, File(OLD_RECORD)} }
    /\ last_read = NoFile

\* a loader: "if not path.exists(): return None", else file_lock(path)
StartLoad(c) ==
    /\ files[TARGET].exists
    /\ StartAcquire(c)

\* tempfile.mkstemp creates the empty file
Mkstemp(c) ==
    /\ lk_pc[c] = "held"
    /\ files' = [files EXCEPT ![WritePath(c)] = File(<<>>)]
    /\ Goto(c, "dump")
    /\ UNCHANGED last_read
    /\ UNCHANGED saveFrame

\* json.dump writes the next chunk; the with block closes the file after the last
Dump(c) ==
    /\ lk_pc[c] = "dump"
    /\ LET f == files[WritePath(c)]
           n == Len(f.content) + 1
       IN /\ n <= Len(RecordOf(c))
          /\ files' = [files EXCEPT ![WritePath(c)] =
                          File(Append(f.content, RecordOf(c)[n]))]
          /\ Goto(c, IF n = Len(RecordOf(c)) THEN "rename" ELSE "dump")
    /\ UNCHANGED last_read
    /\ UNCHANGED saveFrame

\* json.dump or the close raises
DumpFails(c) ==
    /\ lk_pc[c] = "dump"
    /\ Goto(c, "cleanup")
    /\ UNCHANGED <<files, last_read>>
    /\ UNCHANGED saveFrame

\* os.replace / os.rename of the written file over the target
Rename(c) ==
    /\ lk_pc[c] = "rename"
    /\ files' = IF WritePath(c) = TARGET THEN files
                ELSE [files EXCEPT ![TARGET] = files[WritePath(c)],
                                   ![WritePath(c)] = NoFile]
    /\ Goto(c, "release")
    /\ UNCHANGED last_read
    /\ UNCHANGED saveFrame

\* the rename raises
RenameFails(c) ==
    /\ lk_pc[c] = "rename"
    /\ Goto(c, "cleanup")
    /\ UNCHANGED <<files, last_read>>
    /\ UNCHANGED saveFrame

\* except Exception: remove the temp file if it exists, re-raise
Cleanup(c) ==
    /\ lk_pc[c] = "cleanup"
    /\ files' = [files EXCEPT ![WritePath(c)] = NoFile]
    /\ Goto(c, "release")
    /\ UNCHANGED last_read
    /\ UNCHANGED saveFrame

\* a loader: open(path) and json.load(f) inside the lock
Read(c) ==
    /\ lk_pc[c] = "held"
    /\ last_read' = files[TARGET]
    /\ Goto(c, "release")
    /\ UNCHANGED files
    /\ UNCHANGED saveFrame

\* the body of safe_write_json
SaveStep(c) ==
    \/ Mkstemp(c)
    \/ Dump(c)
    \/ DumpFails(c)
    \/ Rename(c)
    \/ RenameFails(c)
    \/ Cleanup(c)

-----------------------------------------------------------------------------
(* RateLimiter: threads calling is_allowed and get_reset_time on one       *)
(* limiter.  current_time is read before self._lock is taken; the body of  *)
(* "with self._lock" is one step.                                          *)

LimThreads == {"t1", "t2"}
LimKeys == {"k1", "k2"}

\* the last reading of the clock
MaxNow == 3
Times == 0..MaxNow

\* RateLimiter(max_requests, window_seconds, cleanup_interval), in clock ticks
MAX_REQUESTS == 2
WINDOW_SECONDS == 2
CLEANUP_INTERVAL == 2

LimiterInit ==
    /\ lim_now = 0
    /\ lim_requests = [k \in LimKeys |-> <<>>]
    /\ lim_last_cleanup = 0
    /\ lim_pc = [t \in LimThreads |-> "idle"]
    /\ lim_time = [t \in LimThreads |-> 0]
    /\ lim_key = [t \in LimThreads |-> "k1"]
    /\ lim_allowed = [k \in LimKeys |-> [ts \in Times |-> 0]]
    /\ lim_follows = [t \in LimThreads |-> FALSE]
    /\ lim_reset = [t \in LimThreads |-> Absent]

\* [ts for ts in timestamps if ts > window_start]
RECURSIVE Recent(_, _)
Recent(timestamps, window_start) ==
    IF timestamps = <<>> THEN <<>>
    ELSE IF Head(timestamps) > window_start
    THEN <<Head(timestamps)>> \o Recent(Tail(timestamps), window_start)
    ELSE Recent(Tail(timestamps), window_start)

\* RateLimiter._cleanup: every key keeps its recent timestamps (a key left
\* with none is deleted, which reads as the empty list)
_cleanup(requests, current_time) ==
    [k \in LimKeys |-> Recent(requests[k], current_time - WINDOW_SECONDS)]

\* the requests allowed so far for a key with a timestamp in lo..hi
RECURSIVE AllowedBetween(_, _, _)
AllowedBetween(k, lo, hi) ==
    IF lo > hi THEN 0
    ELSE (IF lo \in Times THEN lim_allowed[k][lo] ELSE 0) + AllowedBetween(k, lo + 1, hi)

\* is_allowed: current_time = time.time()
ReadTime(t, key) ==
    /\ lim_pc[t] = "idle"
    /\ lim_pc' = [lim_pc EXCEPT ![t] = "locking"]
    /\ lim_time' = [lim_time EXCEPT ![t] = lim_now]
    /\ lim_key' = [lim_key EXCEPT ![t] = key]
    /\ UNCHANGED <<lim_now, lim_requests, lim_last_cleanup, lim_allowed,
                   lim_follows, lim_reset>>
    /\ UNCHANGED limiterFrame

\* is_allowed: len(valid_timestamps) < self.max_requests
UnderLimit(valid_timestamps) == Len(valid_timestamps) < MAX_REQUESTS

\* the body of "with self._lock" for the values the thread holds
Decision(key, current_time, cleaned) ==
    /\ lim_requests' =
          [cleaned EXCEPT ![key] =
              IF UnderLimit(Recent(@, current_time - WINDOW_SECONDS))
              THEN Append(Recent(@, current_time - WINDOW_SECONDS), current_time)
              ELSE Recent(@, current_time - WINDOW_SECONDS)]
    /\ lim_allowed' =
          IF UnderLimit(Recent(cleaned[key], current_time - WINDOW_SECONDS))
          THEN [lim_allowed EXCEPT ![key][current_time] = @ + 1]
          ELSE lim_allowed

\* is_allowed: the thread takes self._lock, cleans up when due, decides;
\* a thread that was refused stands at "denied" with its key and time
Decide(t) ==
    /\ lim_pc[t] = "locking"
    /\ IF lim_time[t] - lim_last_cleanup > CLEANUP_INTERVAL
       THEN /\ lim_last_cleanup' = lim_time[t]
            /\ Decision(lim_key[t], lim_time[t], _cleanup(lim_requests, lim_time[t]))
       ELSE /\ lim_last_cleanup' = lim_last_cleanup
            /\ Decision(lim_key[t], lim_time[t], lim_requests)
    /\ IF lim_allowed' # lim_allowed
       THEN /\ lim_pc' = [lim_pc EXCEPT ![t] = "idle"]
            /\ lim_time' = [lim_time EXCEPT ![t] = 0]
            /\ lim_key' = [lim_key EXCEPT ![t] = "k1"]
       ELSE /\ lim_pc' = [lim_pc EXCEPT ![t] = "denied"]
            /\ UNCHANGED <<lim_time, lim_key>>
    /\ UNCHANGED <<lim_now, lim_follows, lim_reset>>
    /\ UNCHANGED limiterFrame

\* get_reset_time: current_time = time.time(); window_start
ResetReadTime(t, key) ==
    /\ lim_pc[t] \in {"idle", "denied"}
    /\ lim_pc' = [lim_pc EXCEPT ![t] = "reset_locking"]
    /\ lim_follows' = [lim_follows EXCEPT ![t] =
            lim_pc[t] = "denied" /\ key = lim_key[t] /\ lim_now = lim_time[t]]
    /\ lim_time' = [lim_time EXCEPT ![t] = lim_now]
    /\ lim_key' = [lim_key EXCEPT ![t] = key]
    /\ UNCHANGED <<lim_now, lim_requests, lim_last_cleanup, lim_allowed, lim_reset>>
    /\ UNCHANGED limiterFrame

\* min(valid_timestamps)
RECURSIVE Oldest(_)
Oldest(timestamps) ==
    IF Len(timestamps) = 1 THEN Head(timestamps)
    ELSE Min(Head(timestamps), Oldest(Tail(timestamps)))

\* get_reset_time: the body of "with self._lock"
get_reset_time(valid_timestamps, current_time) ==
    IF Len(valid_timestamps) >= MAX_REQUESTS
    THEN Some((Oldest(valid_timestamps) + WINDOW_SECONDS) - current_time)
    ELSE Absent

\* get_reset_time: the thread takes self._lock and returns
ResetDecide(t) ==
    /\ lim_pc[t] = "reset_locking"
    /\ lim_pc' = [lim_pc EXCEPT ![t] = "reported"]
    /\ lim_reset' = [lim_reset EXCEPT ![t] =
            get_reset_time(Recent(lim_requests[lim_key[t]], lim_time[t] - WINDOW_SECONDS),
                           lim_time[t])]
    /\ UNCHANGED <<lim_now, lim_requests, lim_last_cleanup, lim_time, lim_key,
                   lim_allowed, lim_follows>>
    /\ UNCHANGED limiterFrame

\* the caller goes on after a refusal or after reading the reset time
Resume(t) ==
    /\ lim_pc[t] \in {"denied", "reported"}
    /\ lim_pc' = [lim_pc EXCEPT ![t] = "idle"]
    /\ lim_time' = [lim_time EXCEPT ![t] = 0]
    /\ lim_key' = [lim_key EXCEPT ![t] = "k1"]
    /\ lim_follows' = [lim_follows EXCEPT ![t] = FALSE]
    /\ lim_reset' = [lim_reset EXCEPT ![t] = Absent]
    /\ UNCHANGED <<lim_now, lim_requests, lim_last_cleanup, lim_allowed>>
    /\ UNCHANGED limiterFrame

\* the clock advances
Tick ==
    /\ lim_now < MaxNow
    /\ lim_now' = lim_now + 1
    /\ UNCHANGED <<lim_requests, lim_last_cleanup, lim_pc, lim_time, lim_key,
                   lim_allowed, lim_follows, lim_reset>>
    /\ UNCHANGED limiterFrame

-----------------------------------------------------------------------------
(* InterviewRateLimiter.check_request: three RateLimiter instances, one    *)
(* call at a time (the concurrent behaviour of one limiter is in the       *)
(* section above).  The limits are scaled down from 5 per 10 s, 20 per     *)
(* 60 s and 100 per 60 s.                                                  *)

SessionIds == {"s1", "s2"}
IpAddresses == {"ip1"}
Scopes == {"session", "ip", "global"}

\* the last reading of the clock
MaxCheckNow == 3

\* InterviewRateLimiter.__init__: max_requests and window_seconds per scope
LIMITS ==
    [session |-> [max_requests |-> 1, window_seconds |-> 1, default_wait |-> 10],
     ip      |-> [max_requests |-> 2, window_seconds |-> 2, default_wait |-> 60],
     global  |-> [max_requests |-> 3, window_seconds |-> 2, default_wait |-> 0]]

CheckKeys == SessionIds \cup IpAddresses \cup {"global"}

NoCheck ==
    [caller |-> None, consulted |-> <<>>, allowed |-> FALSE, failed |-> None,
     reset |-> Absent, wait |-> Absent]

CheckInit ==
    /\ cr_now = 0
    /\ cr_requests = [s \in Scopes |-> [k \in CheckKeys |-> <<>>]]
    /\ cr_last_cleanup = [s \in Scopes |-> 0]
    /\ cr_last = NoCheck

\* RateLimiter._cleanup of one limiter, when due
CleanedUp(requests, scope, current_time) ==
    IF current_time - cr_last_cleanup[scope] > CLEANUP_INTERVAL
    THEN [k \in CheckKeys |->
             Recent(requests[k], current_time - LIMITS[scope].window_seconds)]
    ELSE requests

\* the valid timestamps is_allowed finds for the key
ValidOf(requests, scope, key, current_time) ==
    Recent(CleanedUp(requests, scope, current_time)[key],
           current_time - LIMITS[scope].window_seconds)

\* RateLimiter.is_allowed of one limiter: what it returns
IsAllowed(requests, scope, key, current_time) ==
    Len(ValidOf(requests, scope, key, current_time)) < LIMITS[scope].max_requests

\* RateLimiter.is_allowed of one limiter: the _requests it leaves
AfterIsAllowed(requests, scope, key, current_time) ==
    [CleanedUp(requests, scope, current_time) EXCEPT ![key] =
        IF IsAllowed(requests, scope, key, current_time)
        THEN Append(ValidOf(requests, scope, key, current_time), current_time)
        ELSE ValidOf(requests, scope, key, current_time)]

\* RateLimiter.get_reset_time of one limiter
ResetTimeOf(requests, scope, key, current_time) ==
    IF Len(Recent(requests[key], current_time - LIMITS[scope].window_seconds))
           >= LIMITS[scope].max_requests
    THEN Some((Oldest(Recent(requests[key],
                             current_time - LIMITS[scope].window_seconds))
               + LIMITS[scope].window_seconds) - current_time)
    ELSE Absent

\* wait_seconds = int(reset_time) if reset_time else <default>
WaitSeconds(reset_time, scope) ==
    IF reset_time = Absent \/ Get(reset_time, 0) = 0
    THEN LIMITS[scope].default_wait
    ELSE Get(reset_time, 0)

\* the scopes check_request consults, in its order, for the arguments
ScopeOrder(ip_address) ==
    IF ip_address = Absent \/ ip_address = Some("")
    THEN <<"global", "session">>
    ELSE <<"global", "ip", "session">>

KeyOf(scope, session_id, ip_address) ==
    CASE scope = "global" -> "global"
      [] scope = "ip" -> Get(ip_address, "")
      [] scope = "session" -> session_id

\* check_request from its i-th scope on: the limiters consulted so far are
\* in consulted, their _requests in requests; late is the time that passes
\* between a refusal and the reading of the reset time
RECURSIVE CheckFrom(_, _, _, _, _, _, _, _)
CheckFrom(caller, order, i, session_id, ip_address, requests, consulted, late) ==
    IF i > Len(order)
    THEN /\ cr_requests' = requests
         /\ cr_last' = [caller |-> caller, consulted |-> consulted,
                        allowed |-> TRUE, failed |-> None,
                        reset |-> Absent, wait |-> Absent]
    ELSE IF IsAllowed(requests[order[i]], order[i],
                      KeyOf(order[i], session_id, ip_address), cr_now)
    THEN CheckFrom(caller, order, i + 1, session_id, ip_address,
                   [requests EXCEPT ![order[i]] =
                       AfterIsAllowed(@, order[i],
                                      KeyOf(order[i], session_id, ip_address), cr_now)],
                   Append(consulted, order[i]), late)
    ELSE /\ cr_requests' =
              [requests EXCEPT ![order[i]] =
                  AfterIsAllowed(@, order[i],
                                 KeyOf(order[i], session_id, ip_address), cr_now)]
         /\ cr_last' =
              [caller |-> caller, consulted |-> Append(consulted, order[i]),
               allowed |-> FALSE, failed |-> order[i],
               reset |-> IF order[i] = "global" THEN Absent
                         ELSE ResetTimeOf(
                                  AfterIsAllowed(requests[order[i]], order[i],
                                      KeyOf(order[i], session_id, ip_address), cr_now),
                                  order[i],
                                  KeyOf(order[i], session_id, ip_address),
                                  cr_now + late),
               wait |-> IF order[i] = "global" THEN Absent
                        ELSE Some(WaitSeconds(
                                  ResetTimeOf(
                                      AfterIsAllowed(requests[order[i]], order[i],
                                          KeyOf(order[i], session_id, ip_address), cr_now),
                                      order[i],
                                      KeyOf(order[i], session_id, ip_address),
                                      cr_now + late),
                                  order[i]))]

\* the limiters whose cleanup ran in the call
CleanupsRun(consulted) ==
    [s \in Scopes |->
        IF (\E i \in 1..Len(consulted) : consulted[i] = s)
           /\ cr_now - cr_last_cleanup[s] > CLEANUP_INTERVAL
        THEN cr_now ELSE cr_last_cleanup[s]]

\* InterviewRateLimiter.check_request(session_id, ip_address)
check_request(caller, session_id, ip_address, late) ==
    /\ CheckFrom(caller, ScopeOrder(ip_address), 1, session_id, ip_address,
                 cr_requests, <<>>, late)
    /\ cr_last_cleanup' = CleanupsRun(cr_last'.consulted)
    /\ UNCHANGED cr_now

\* a caller that passes the client address
CheckRequest(session_id, ip_address, late) ==
    /\ check_request("check_request", session_id, ip_address, late)
    /\ UNCHANGED checkFrame

\* process_user_input: check_interview_rate_limit(session.session_id)
ProcessUserInputCheck(session_id, late) ==
    /\ check_request("process_user_input", session_id, Absent, late)
    /\ UNCHANGED checkFrame

\* the clock advances
CheckTick ==
    /\ cr_now < MaxCheckNow
    /\ cr_now' = cr_now + 1
    /\ UNCHANGED <<cr_requests, cr_last_cleanup, cr_last>>
    /\ UNCHANGED checkFrame

-----------------------------------------------------------------------------
(* GeminiService._request_with_retry: the endpoint's answer to each POST   *)
(* is an input; the call is one step.                                      *)

\* self.max_retries, self.base_delay
max_retries == 3
base_delay == 1

\* HTTP statuses the endpoint answers with
Statuses == {200, 400, 404, 429, 500}

\* requests.post returns a Response, or raises ConnectionError or Timeout
\* (both RequestException)
Response(status) == [kind |-> "response", status_code |-> status, name |-> None]
TransportFailure(name) == [kind |-> "transport", status_code |-> 0, name |-> name]

PostOutcomes ==
    {Response(s) : s \in Statuses}
        \cup {TransportFailure(n) : n \in {"ConnectionError", "Timeout"}}

HttpInputs == [1..max_retries -> PostOutcomes]

\* Response.raise_for_status(): HTTPError for a status from 400 to 599
RaisesForStatus(o) == o.kind = "response" /\ o.status_code >= 400 /\ o.status_code < 600

\* bool(response) is Response.ok: the status is below 400
Truthy(o) == o.kind = "response" /\ o.status_code < 400

\* status_code = e.response.status_code if e.response else None
StatusOf(o) == IF Truthy(o) THEN Some(o.status_code) ELSE Absent

\* if status_code and 400 <= status_code < 500 and status_code != 429
NonRetryable(o) ==
    /\ StatusOf(o) # Absent
    /\ Get(StatusOf(o), 0) # 0
    /\ 400 <= Get(StatusOf(o), 0)
    /\ Get(StatusOf(o), 0) < 500
    /\ Get(StatusOf(o), 0) # 429

NoHttpResult ==
    [returned |-> Absent, raised |-> None, status_code |-> Absent,
     attempts |-> 0, sleeps |-> <<>>]

\* the loop of _request_with_retry from attempt number attempt on
RECURSIVE request_loop(_, _, _)
request_loop(outcomes, attempt, sleeps) ==
    IF attempt >= max_retries
    THEN [returned |-> Absent, raised |-> "GeminiAPIError", status_code |-> Absent,
          attempts |-> attempt, sleeps |-> sleeps]
    ELSE IF outcomes[attempt + 1].kind = "response" /\ ~RaisesForStatus(outcomes[attempt + 1])
    THEN [returned |-> Some(outcomes[attempt + 1].status_code), raised |-> None,
          status_code |-> Absent, attempts |-> attempt + 1, sleeps |-> sleeps]
    ELSE IF RaisesForStatus(outcomes[attempt + 1]) /\ NonRetryable(outcomes[attempt + 1])
    THEN [returned |-> Absent, raised |-> "GeminiAPIError",
          status_code |-> StatusOf(outcomes[attempt + 1]),
          attempts |-> attempt + 1, sleeps |-> sleeps]
    ELSE request_loop(outcomes, attempt + 1, Append(sleeps, base_delay * Pow2(attempt)))

HttpInit ==
    /\ http_input = <<>>
    /\ http_result = NoHttpResult

\* GeminiService._request_with_retry(url, payload)
RequestWithRetry ==
    /\ http_input # <<>>
    /\ http_result = NoHttpResult
    /\ http_result' = request_loop(http_input, 0, <<>>)
    /\ UNCHANGED http_input
    /\ UNCHANGED httpFrame

-----------------------------------------------------------------------------
(* GeminiService.stream_generate after its request succeeded: the lines of *)
(* the response are an input, the generator is pulled to its end in one    *)
(* step.                                                                   *)

\* the longest response
MaxLines == 3

\* the chunk yielded for a safety block
SAFETY_SENTINEL == <<"[content_blocked_by_safety_filter]">>

\* a line "data: {...}" whose first candidate has the finish reason, the
\* text part (a thinking part when thought is set) and the thoughtSignature
DataLine(finish_reason, text, thought, signature) ==
    [kind |-> "data", finishReason |-> finish_reason, text |-> text,
     thought |-> thought, thoughtSignature |-> signature]

SseLines ==
    { DataLine("", Some(<<"hello">>), FALSE, None),
      DataLine("STOP", Some(<<"bye">>), FALSE, "sigA"),
      DataLine("", Some(<<"thinking">>), TRUE, None),
      DataLine("SAFETY", Absent, FALSE, None),
      DataLine("BLOCKED", Some(<<"partial">>), FALSE, "sigB"),
      [kind |-> "blank", finishReason |-> "", text |-> Absent,
       thought |-> FALSE, thoughtSignature |-> None],
      [kind |-> "malformed", finishReason |-> "", text |-> Absent,
       thought |-> FALSE, thoughtSignature |-> None] }

SseInputs == UNION {[1..n -> SseLines] : n \in 0..MaxLines}

\* finish_reason in ('SAFETY', 'BLOCKED')
SafetyBlock(line) == line.kind = "data" /\ line.finishReason \in {"SAFETY", "BLOCKED"}

\* what the loop body yields for one line
YieldsOf(line) ==
    IF line.kind # "data" THEN <<>>
    ELSE IF SafetyBlock(line) THEN <<Elem(SAFETY_SENTINEL, None)>>
    ELSE IF line.text # Absent /\ ~line.thought THEN <<Elem(Get(line.text, <<>>), None)>>
    ELSE <<>>

\* new_thought_signature after the line
SignatureAfter(line, new_thought_signature) ==
    IF line.kind = "data" /\ ~SafetyBlock(line) /\ line.thoughtSignature # None
    THEN line.thoughtSignature
    ELSE new_thought_signature

\* the loop over response.iter_lines() and the final yield
RECURSIVE stream_generate(_, _, _)
stream_generate(lines, new_thought_signature, yielded) ==
    IF lines = <<>>
    THEN IF new_thought_signature # None
         THEN Append(yielded, Elem(<<>>, new_thought_signature))
         ELSE yielded
    ELSE stream_generate(Tail(lines),
                         SignatureAfter(Head(lines), new_thought_signature),
                         yielded \o YieldsOf(Head(lines)))

StreamInit ==
    /\ sse_lines = <<>>
    /\ sse_yielded = Absent

\* one stream_generate call, pulled to exhaustion
StreamGenerate ==
    /\ sse_yielded = Absent
    /\ sse_yielded' = Some(stream_generate(sse_lines, None, <<>>))
    /\ UNCHANGED sse_lines
    /\ UNCHANGED streamFrame

-----------------------------------------------------------------------------
(* StorageService: session and evaluation records in dated directories *)

\* the days the clock runs through
MaxDay == 1

Dates == 0..MaxDay

\* find_session_by_prefix(session_prefix, days=30)
DAYS == 30

Rep(ch, n) == [i \in 1..n |-> ch]

\* str(uuid.uuid4()): 36 characters; the two ids share their first 8
\* characters and differ within the first 12
ID1 == Rep("a", 8) \o Rep("b", 4) \o Rep("c", 24)

ID2 == Rep("a", 8) \o Rep("d", 4) \o Rep("c", 24)

StoredIds == {ID1, ID2}

\* the session whose interview gets evaluated
EvaluatedIds == {ID1}

\* s[:n]
Slice(s, n) == SubSeq(s, 1, Min(n, Len(s)))

IsPrefix(p, s) == Len(p) <= Len(s) /\ SubSeq(s, 1, Len(p)) = p

\* the EvaluationResult objects handed to the store
Evaluations ==
    { [total_score |-> 85, decision_tier |-> "A", is_s_tier |-> FALSE],
      [total_score |-> 40, decision_tier |-> "C", is_s_tier |-> FALSE] }

\* InterviewSession(): a new session object created on day created_at
StoredSession(session_id, created_at) ==
    [session_id |-> session_id, created_at |-> created_at,
     chat_history |-> <<>>, thought_signature |-> None,
     status |-> PENDING, turn_count |-> 0]

\* what the interview does to the session object: the greeting and a turn,
\* with the signature they brought
SessionProgress(s) ==
    [add_message(add_message(add_message(s, MODEL, <<"hello">>), USER, <<"hi">>),
                 MODEL, <<"tell", "me", "more">>)
       EXCEPT !.status = IN_PROGRESS, !.thought_signature = "sigA"]

JSON_NULL == "null"

\* datetime in model_dump(mode="json"): an ISO string
IsoFormat(date) == <<"iso", date>>

FromIsoFormat(text) == text[2]

\* session.model_dump(mode="json")
model_dump(s) ==
    [session_id |-> s.session_id,
     created_at |-> IsoFormat(s.created_at),
     chat_history |-> s.chat_history,
     thought_signature |-> IF s.thought_signature = None THEN JSON_NULL
                           ELSE s.thought_signature,
     status |-> s.status,
     turn_count |-> s.turn_count]

\* InterviewSession(**session_data)
InterviewSession(data) ==
    [session_id |-> data.session_id,
     created_at |-> FromIsoFormat(data.created_at),
     chat_history |-> data.chat_history,
     thought_signature |-> IF data.thought_signature = JSON_NULL THEN None
                           ELSE data.thought_signature,
     status |-> data.status,
     turn_count |-> data.turn_count]

\* _get_date_dir: date or datetime.now()
_get_date_dir(date) == Get(date, st_today)

\* _get_session_path: the first 12 characters of the id name the file
_get_session_path(session_id, date) ==
    [dir |-> _get_date_dir(date), prefix |-> Slice(session_id, 12), kind |-> "session"]

_get_evaluation_path(session_id, date) ==
    [dir |-> _get_date_dir(date), prefix |-> Slice(session_id, 12), kind |-> "evaluation"]

StorePaths ==
    [dir : Dates, prefix : {Slice(id, 12) : id \in StoredIds},
     kind : {"session", "evaluation"}]

NoLookup == [session_prefix |-> <<>>, result |-> Absent, done |-> FALSE]

StorageInit ==
    /\ st_today = 0
    /\ st_session = [id \in StoredIds |-> Absent]
    /\ st_files = [p \in StorePaths |-> Absent]
    /\ st_last = NoLookup

\* safe_write_json(path, data): the file at the path becomes the data,
\* whether the path existed or not
safe_write_json(fs, path, data) == [fs EXCEPT ![path] = Some(data)]

\* StorageService.save_session
save_session(fs, s) ==
    safe_write_json(fs, _get_session_path(s.session_id, Some(s.created_at)), model_dump(s))

\* StorageService.save_evaluation
save_evaluation(fs, session_id, e, date) ==
    safe_write_json(fs, _get_evaluation_path(session_id, date), e)

\* date_dir.glob(f"{session_prefix}*_session.json")
session_files(fs, date, session_prefix) ==
    { p \in StorePaths : /\ p.dir = date
                         /\ p.kind = "session"
                         /\ fs[p] # Absent
                         /\ IsPrefix(session_prefix, p.prefix) }

\* session_files[0]: the listing of a directory comes in no fixed order;
\* listed_first is the file name it happens to start with
First(matches, listed_first) ==
    IF \E p \in matches : p.prefix = listed_first
    THEN CHOOSE p \in matches : p.prefix = listed_first
    ELSE CHOOSE p \in matches : TRUE

\* find_session_by_prefix from the i-th day back
RECURSIVE find_from(_, _, _, _)
find_from(fs, session_prefix, i, first) ==
    IF i >= DAYS \/ st_today - i < 0
    THEN Absent
    ELSE IF session_files(fs, st_today - i, session_prefix) = {}
         THEN find_from(fs, session_prefix, i + 1, first)
         ELSE Some([session |->
                        InterviewSession(
                            fs[First(session_files(fs, st_today - i, session_prefix),
                                     first)][1]),
                    evaluation |->
                        fs[[First(session_files(fs, st_today - i, session_prefix), first)
                               EXCEPT !.kind = "evaluation"]]])

find_session_by_prefix(fs, session_prefix, first) ==
    find_from(fs, session_prefix, 0, first)

\* the file names a directory listing can start with
GlobOrders == {Slice(id, 12) : id \in StoredIds}

\* the keys a session is looked up by: its full id, its first 8 characters
\* (notification link) and its first 12 (recovery URL, listing)
LookupKeys(id) == {id, Slice(id, 8), Slice(id, 12)}

\* a session object comes into being
CreateSession(id) ==
    /\ st_session[id] = Absent
    /\ st_session' = [st_session EXCEPT ![id] = Some(StoredSession(id, st_today))]
    /\ st_last' = NoLookup
    /\ UNCHANGED <<st_today, st_files>>
    /\ UNCHANGED storageFrame

\* the interview moves on
Progress(id) ==
    /\ st_session[id] # Absent
    /\ st_session[id][1].status = PENDING
    /\ st_session' = [st_session EXCEPT ![id] = Some(SessionProgress(@[1]))]
    /\ st_last' = NoLookup
    /\ UNCHANGED <<st_today, st_files>>
    /\ UNCHANGED storageFrame

SaveSession(id) ==
    /\ st_session[id] # Absent
    /\ st_files' = save_session(st_files, st_session[id][1])
    /\ st_last' = NoLookup
    /\ UNCHANGED <<st_today, st_session>>
    /\ UNCHANGED storageFrame

\* save_evaluation(session_id, evaluation): date is left to its default
SaveEvaluation(id, e) ==
    /\ st_session[id] # Absent
    /\ st_files' = save_evaluation(st_files, id, e, Absent)
    /\ st_last' = NoLookup
    /\ UNCHANGED <<st_today, st_session>>
    /\ UNCHANGED storageFrame

\* save_interview_complete(session, evaluation)
SaveInterviewComplete(id, e) ==
    /\ st_session[id] # Absent
    /\ st_files' = save_evaluation(save_session(st_files, st_session[id][1]),
                                   id, e, Some(st_session[id][1].created_at))
    /\ st_last' = NoLookup
    /\ UNCHANGED <<st_today, st_session>>
    /\ UNCHANGED storageFrame

FindSessionByPrefix(session_prefix, first) ==
    /\ st_last' = [session_prefix |-> session_prefix,
                   result |-> find_session_by_prefix(st_files, session_prefix, first),
                   done |-> TRUE]
    /\ UNCHANGED <<st_today, st_session, st_files>>
    /\ UNCHANGED storageFrame

\* midnight
NextDay ==
    /\ st_today < MaxDay
    /\ st_today' = st_today + 1
    /\ st_last' = NoLookup
    /\ UNCHANGED <<st_session, st_files>>
    /\ UNCHANGED storageFrame

-----------------------------------------------------------------------------
(* The save path of the application: a session saved turn by turn, saved   *)
(* with its evaluation when the interview is over, and rebuilt from its    *)
(* file by a client that opens the recovery URL                            *)

\* the turns a client that recovered the session goes on for
MaxRecoveredTurns == 1

NotCalled == [stage |-> "idle", session_id |-> <<>>, evaluation |-> None]

RecoveryInit ==
    /\ sp_restored = Absent
    /\ sp_complete = NotCalled

\* the interview ends: the engine sets is_ended and the terminal status
Finish(id) ==
    /\ st_session[id] # Absent
    /\ st_session[id][1].status = IN_PROGRESS
    /\ st_session' = [st_session EXCEPT ![id] = Some([@[1] EXCEPT !.status = COMPLETED])]
    /\ st_last' = NoLookup
    /\ UNCHANGED <<st_today, st_files>>
    /\ UNCHANGED recoveryVars
    /\ UNCHANGED recoveryFrame

\* run_evaluation is reached through engine.should_evaluate: the session
\* it is given has a terminal status
Evaluable(s) == s.status \in {COMPLETED, TERMINATED}

\* save_interview_complete, first statement: save_session(session); ok is
\* whether safe_write_json returned or raised
CompleteSaveSession(id, e, ok) ==
    /\ sp_complete.stage # "session_saved"
    /\ st_session[id] # Absent
    /\ Evaluable(st_session[id][1])
    /\ IF ok
       THEN /\ st_files' = save_session(st_files, st_session[id][1])
            /\ sp_complete' = [stage |-> "session_saved", session_id |-> id, evaluation |-> e]
       ELSE /\ st_files' = st_files
            /\ sp_complete' = [stage |-> "raised", session_id |-> id, evaluation |-> e]
    /\ st_last' = NoLookup
    /\ UNCHANGED <<st_today, st_session, sp_restored>>
    /\ UNCHANGED recoveryFrame

\* save_interview_complete, second statement:
\* save_evaluation(session.session_id, evaluation, session.created_at)
CompleteSaveEvaluation(ok) ==
    /\ sp_complete.stage = "session_saved"
    /\ IF ok
       THEN /\ st_files' = save_evaluation(st_files, sp_complete.session_id,
                                           sp_complete.evaluation,
                                           Some(st_session[sp_complete.session_id][1].created_at))
            /\ sp_complete' = [sp_complete EXCEPT !.stage = "returned"]
       ELSE /\ st_files' = st_files
            /\ sp_complete' = [sp_complete EXCEPT !.stage = "raised"]
    /\ st_last' = NoLookup
    /\ UNCHANGED <<st_today, st_session, sp_restored>>
    /\ UNCHANGED recoveryFrame

\* try_restore_session_from_url: the session found under the first 12
\* characters of the id is installed if its status is IN_PROGRESS
TryRestore(id, first) ==
    /\ LET result == find_session_by_prefix(st_files, Slice(id, 12), first)
       IN /\ result # Absent
          /\ result[1].session.status = IN_PROGRESS
          /\ sp_restored' = Some(result[1].session)
    /\ st_last' = NoLookup
    /\ UNCHANGED <<st_today, st_session, st_files, sp_complete>>
    /\ UNCHANGED recoveryFrame

\* process_user_input of the client that recovered the session: a turn of
\* the interview, then save_interview_progress, which swallows a failed save
RecoveredTurn(ok) ==
    /\ sp_restored # Absent
    /\ sp_restored[1].status = IN_PROGRESS
    /\ sp_restored[1].turn_count <= MaxRecoveredTurns
    /\ sp_restored' = Some(add_message(add_message(sp_restored[1], USER, <<"and">>),
                                       MODEL, <<"go", "on">>))
    /\ st_files' = IF ok THEN save_session(st_files, sp_restored'[1]) ELSE st_files
    /\ st_last' = NoLookup
    /\ UNCHANGED <<st_today, st_session, sp_complete>>
    /\ UNCHANGED recoveryFrame

-----------------------------------------------------------------------------
(* evaluate() and its worker threads, one step per blocking call *)

\* how a worker's _do_evaluate call can end
WorkerEnds == {"result", "GeminiAPIError", "Exception"}

NoOutcome == [returned |-> None, last_error |-> None, backoff |-> <<>>]

TimeoutInit ==
    /\ et_pc = "loop"
    /\ et_attempt = 0
    /\ et_workers = <<>>
    /\ et_pending = None
    /\ et_out = NoOutcome

\* executor.submit(self._do_evaluate, ...), then future.result(timeout)
\* starts waiting
Submit ==
    /\ et_pc = "loop"
    /\ et_workers' = Append(et_workers, "running")
    /\ et_pc' = "result"
    /\ UNCHANGED <<et_attempt, et_pending, et_out>>
    /\ UNCHANGED timeoutFrame

\* the generation call of a worker ends; nothing interrupts a worker
WorkerEnd(w, how) ==
    /\ w \in 1..Len(et_workers)
    /\ et_workers[w] = "running"
    /\ et_workers' = [et_workers EXCEPT ![w] = how]
    /\ UNCHANGED <<et_pc, et_attempt, et_pending, et_out>>
    /\ UNCHANGED timeoutFrame

\* future.result(timeout) gives what the worker ended with
FutureResult ==
    /\ et_pc = "result"
    /\ et_workers[Len(et_workers)] # "running"
    /\ et_pending' = et_workers[Len(et_workers)]
    /\ et_pc' = "exit"
    /\ UNCHANGED <<et_attempt, et_workers, et_out>>
    /\ UNCHANGED timeoutFrame

\* future.result(timeout) raises: the deadline passed with the worker
\* still running
FutureTimeout ==
    /\ et_pc = "result"
    /\ et_workers[Len(et_workers)] = "running"
    /\ et_pending' = "FuturesTimeoutError"
    /\ et_pc' = "exit"
    /\ UNCHANGED <<et_attempt, et_workers, et_out>>
    /\ UNCHANGED timeoutFrame

\* ThreadPoolExecutor.__exit__: shutdown(wait=True) joins the worker thread
ExecutorExit(workers) == workers[Len(workers)] # "running"

\* the loop of evaluate() after one attempt: return, retry or fall back
AfterExit(pending, attempt, out) ==
    IF pending = "result"
    THEN [pc |-> "returned", attempt |-> attempt,
          out |-> [out EXCEPT !.returned = "result"]]
    ELSE IF pending = "Exception"
    THEN [pc |-> "returned", attempt |-> attempt,
          out |-> [out EXCEPT !.returned = "fallback", !.last_error = "Exception"]]
    ELSE IF attempt < MAX_RETRIES
    THEN [pc |-> "loop", attempt |-> attempt + 1,
          out |-> [out EXCEPT !.last_error = IF pending = "FuturesTimeoutError"
                                             THEN "TimeoutError" ELSE pending,
                              !.backoff = IF pending = "GeminiAPIError"
                                          THEN Append(@, Pow2(attempt)) ELSE @]]
    ELSE [pc |-> "returned", attempt |-> attempt,
          out |-> [out EXCEPT !.returned = "fallback",
                              !.last_error = IF pending = "FuturesTimeoutError"
                                             THEN "TimeoutError" ELSE pending]]

\* the with block is left and the except clauses of evaluate() run
LeaveWith ==
    /\ et_pc = "exit"
    /\ ExecutorExit(et_workers)
    /\ et_pc' = AfterExit(et_pending, et_attempt, et_out).pc
    /\ et_attempt' = AfterExit(et_pending, et_attempt, et_out).attempt
    /\ et_out' = AfterExit(et_pending, et_attempt, et_out).out
    /\ et_pending' = None
    /\ UNCHANGED et_workers
    /\ UNCHANGED timeoutFrame

-----------------------------------------------------------------------------

FilesIdle ==
    /\ files = [p \in Paths |-> NoFile]
    /\ last_read = NoFile

\* nothing has run on the utilities
ExtraIdle == CheckInit /\ HttpInit /\ StreamInit /\ StorageInit /\ TimeoutInit /\ RecoveryInit

UtilIdle == ValidateIdle /\ LockInit /\ FilesIdle /\ LimiterInit /\ ExtraIdle

\* create_interviewer: a new engine on a new session, no evaluation yet
EngineInit ==
    /\ session = NewSession(None)
    /\ is_started = FALSE
    /\ is_ended = FALSE
    /\ test_mode \in BOOLEAN
    /\ test_mode_triggered = FALSE
    /\ conversation = NewConversation
    /\ start_called = FALSE
    /\ gen_calls = 0
    /\ last_call = Call("create_interviewer", None, 0, <<>>)
    /\ eval_pc = "idle"
    /\ eval_input = <<>>
    /\ eval_trace = NoTrace
    /\ evaluation = NoResult

Init == EngineInit /\ UtilIdle

Next ==
    \/ \E run \in StreamRuns : StartInterview(run)
    \/ \E m \in UserInputs, run \in StreamRuns : Chat(m, run)
    \/ \E reason \in {"manual", "security"} : ForceEnd(reason)
    \/ \E tm \in BOOLEAN : RestoreInterviewer(tm)
    \/ \E outcomes \in EngineEvalInputs : RunEvaluation(outcomes)

Spec == Init /\ [][Next]_vars

-----------------------------------------------------------------------------
(* The evaluator on its own: sessions as the interview leaves them, and    *)
(* every sequence of answers of the generation service.                    *)

Greeted(name) ==
    add_message([NewSession(name) EXCEPT !.status = IN_PROGRESS],
                MODEL, <<"question">>)

EvalSessions ==
    UNION { { NewSession(name),
              end_session(NewSession(name), TERMINATED),
              end_session(Greeted(name), TERMINATED),
              end_session(add_message(Greeted(name), USER, <<"/stop">>), COMPLETED) }
            : name \in {None, "bob"} }

InitEvaluate ==
    /\ session \in EvalSessions
    /\ is_started = TRUE
    /\ is_ended = (session.status \in {COMPLETED, TERMINATED})
    /\ test_mode_triggered \in BOOLEAN
    /\ test_mode_triggered =>
          /\ session.status = COMPLETED
          /\ session.turn_count > 0
    /\ test_mode = test_mode_triggered
    /\ conversation = NewConversation
    /\ start_called = TRUE
    /\ gen_calls = 1
    /\ last_call = Call("chat", None, 0, <<>>)
    /\ eval_pc = "idle"
    /\ eval_input \in EvalInputs
    /\ eval_trace = NoTrace
    /\ evaluation = NoResult
    /\ UtilIdle

NextEvaluate ==
    \/ Evaluate(eval_input)
    \/ RunEvaluation(eval_input)

SpecEvaluate == InitEvaluate /\ [][NextEvaluate]_vars

-----------------------------------------------------------------------------
(* The utilities on their own, beside an engine that does nothing *)

EngineIdle == EngineInit /\ test_mode = FALSE

\* _validate_scores applied to every raw answer
InitValidate ==
    /\ EngineIdle
    /\ raw_data \in RawInputs
    /\ validated = Absent
    /\ LockInit /\ FilesIdle /\ LimiterInit /\ ExtraIdle

NextValidate ==
    /\ ValidateScores
    /\ UNCHANGED <<engineVars, evalVars, lockVars, fileVars, limiterVars, extraVars>>

SpecValidate == InitValidate /\ [][NextValidate]_vars

\* callers of file_lock(path) whose with body only holds the lock
InitLock == EngineIdle /\ UtilIdle

NextLock ==
    \/ \E c \in Callers : StartAcquire(c)
    \/ \E c \in Callers : Expire(c)
    \/ \E c \in Callers : AcquireStep(c)
    \/ \E c \in Callers : Leave(c)
    \/ \E c \in Callers : ReleaseStep(c)
    \/ \E p \in Procs : Crash(p)
    \/ Age

SpecLock == InitLock /\ [][NextLock]_vars

\* the steps a caller takes whenever it can: everything but the failures of
\* the system calls and the running out of its wait bound
NormalStep(c) ==
    \/ StartAcquire(c)
    \/ ThreadAcquire(c)
    \/ ThreadTimeout(c)
    \/ Remaining(c)
    \/ LoopTest(c)
    \/ OpenCreated(c)
    \/ OpenExists(c)
    \/ StaleExists(c)
    \/ StaleMtime(c)
    \/ RemoveStale(c)
    \/ Sleep(c)
    \/ RaiseTimeout(c)
    \/ Leave(c)
    \/ ReleaseStep(c)

\* callers that keep calling and keep running, a clock that advances, and
\* an os.open / os.write that does not fail for ever
LockFairness ==
    /\ WF_vars(Age)
    /\ \A c \in Callers : /\ WF_vars(NormalStep(c))
                           /\ SF_vars(OpenCreated(c))
                           /\ SF_vars(OpenExists(c))

\* every other caller is between calls, blocked, asleep, in its with body
\* or dead: no step that takes no time is pending
Quiet(c) ==
    \A d \in Callers \ {c} :
        \/ lk_pc[d] \in {"idle", "sleep", "held", "crashed"}
        \/ lk_pc[d] = "thread_wait" /\ thread_lock[Proc(d)] # None

\* the steps of acquire() and release() take no time next to the 0.1 s
\* sleeps and the 10 s wait bound: a wait bound runs out only while no
\* such step is pending
ExpireQuiet(c) ==
    /\ Quiet(c)
    /\ Expire(c)

NextLockTimed ==
    \/ \E c \in Callers : StartAcquire(c)
    \/ \E c \in Callers : ExpireQuiet(c)
    \/ \E c \in Callers : AcquireStep(c)
    \/ \E c \in Callers : Leave(c)
    \/ \E c \in Callers : ReleaseStep(c)
    \/ \E p \in Procs : Crash(p)
    \/ Age

SpecLockFair == InitLock /\ [][NextLockTimed]_vars /\ LockFairness

\* savers and loaders of the target path
InitStore ==
    /\ EngineIdle
    /\ ValidateIdle /\ LockInit /\ FilesInit /\ LimiterInit /\ ExtraIdle

NextStore ==
    \/ \E c \in Savers : StartAcquire(c)
    \/ \E c \in Loaders : StartLoad(c)
    \/ \E c \in Callers : Expire(c)
    \/ \E c \in Callers : AcquireStep(c)
    \/ \E c \in Savers : SaveStep(c)
    \/ \E c \in Loaders : Read(c)
    \/ \E c \in Callers : ReleaseStep(c)
    \/ \E p \in Procs : Crash(p)
    \/ Age

SpecStore == InitStore /\ [][NextStore]_vars

\* threads calling is_allowed and get_reset_time
InitLimiter == EngineIdle /\ UtilIdle

NextLimiter ==
    \/ \E t \in LimThreads, key \in LimKeys : ReadTime(t, key)
    \/ \E t \in LimThreads : Decide(t)
    \/ \E t \in LimThreads, key \in LimKeys : ResetReadTime(t, key)
    \/ \E t \in LimThreads : ResetDecide(t)
    \/ \E t \in LimThreads : Resume(t)
    \/ Tick

SpecLimiter == InitLimiter /\ [][NextLimiter]_vars

\* callers of check_request, with and without a client address
InitCheck == EngineIdle /\ UtilIdle

NextCheck ==
    \/ \E s \in SessionIds, ip \in IpAddresses, late \in 0..1 :
           CheckRequest(s, Some(ip), late)
    \/ \E s \in SessionIds, late \in 0..1 : ProcessUserInputCheck(s, late)
    \/ CheckTick

SpecCheck == InitCheck /\ [][NextCheck]_vars

\* one _request_with_retry call for every way the endpoint may answer
InitHttp ==
    /\ EngineIdle
    /\ ValidateIdle /\ LockInit /\ FilesIdle /\ LimiterInit
    /\ CheckInit /\ StreamInit /\ StorageInit /\ TimeoutInit /\ RecoveryInit
    /\ http_input \in HttpInputs
    /\ http_result = NoHttpResult

NextHttp == RequestWithRetry

SpecHttp == InitHttp /\ [][NextHttp]_vars

\* one stream_generate call for every response of up to MaxLines lines
InitStream ==
    /\ EngineIdle
    /\ ValidateIdle /\ LockInit /\ FilesIdle /\ LimiterInit
    /\ CheckInit /\ HttpInit /\ StorageInit /\ TimeoutInit /\ RecoveryInit
    /\ sse_lines \in SseInputs
    /\ sse_yielded = Absent

NextStream == StreamGenerate

SpecStream == InitStream /\ [][NextStream]_vars

\* sessions created, carried on, saved, evaluated and looked up
InitStorage == EngineIdle /\ UtilIdle

NextStorage ==
    \/ \E id \in StoredIds : CreateSession(id)
    \/ \E id \in StoredIds : Progress(id)
    \/ \E id \in StoredIds : SaveSession(id)
    \/ \E id \in EvaluatedIds, e \in Evaluations : SaveEvaluation(id, e)
    \/ \E id \in EvaluatedIds, e \in Evaluations : SaveInterviewComplete(id, e)
    \/ \E id \in StoredIds : \E key \in LookupKeys(id), first \in GlobOrders :
          FindSessionByPrefix(key, first)
    \/ NextDay

SpecStorage == InitStorage /\ [][NextStorage]_vars

\* one interview saved turn by turn and with its evaluation, looked up and
\* recovered by a second client
InitSavePath == EngineIdle /\ UtilIdle

NextSavePath ==
    \/ \E id \in EvaluatedIds : CreateSession(id)
    \/ \E id \in EvaluatedIds : Progress(id)
    \/ \E id \in EvaluatedIds : Finish(id)
    \/ \E id \in EvaluatedIds : SaveSession(id)
    \/ \E id \in EvaluatedIds, e \in Evaluations, ok \in BOOLEAN : CompleteSaveSession(id, e, ok)
    \/ \E ok \in BOOLEAN : CompleteSaveEvaluation(ok)
    \/ \E id \in EvaluatedIds : \E key \in LookupKeys(id), first \in GlobOrders :
          FindSessionByPrefix(key, first)
    \/ \E id \in EvaluatedIds, first \in GlobOrders : TryRestore(id, first)
    \/ \E ok \in BOOLEAN : RecoveredTurn(ok)
    \/ NextDay

SpecSavePath == InitSavePath /\ [][NextSavePath]_vars

\* one evaluate() call and the workers it starts
InitTimeout == EngineIdle /\ UtilIdle

NextTimeout ==
    \/ Submit
    \/ \E w \in 1..(MAX_RETRIES + 1), how \in WorkerEnds : WorkerEnd(w, how)
    \/ FutureResult
    \/ FutureTimeout
    \/ LeaveWith

SpecTimeout == InitTimeout /\ [][NextTimeout]_vars

-----------------------------------------------------------------------------
(* Properties *)

Terminal == {COMPLETED, TERMINATED}

\* the text a caller assembles from the chunks a call yielded
RECURSIVE Concat(_)
Concat(chunks) == IF chunks = <<>> THEN <<>> ELSE Head(chunks) \o Concat(Tail(chunks))

\* the text holds one of the configured termination phrases
HoldsTerminationPhrase(text) ==
    \E i \in 1..Len(text), j \in 1..Len(text) :
        i <= j /\ SubSeq(text, i, j) \in TERMINATION_KEYWORDS

\* the inputs that are the test command: "/stop" up to case and surrounding
\* whitespace
StopTexts == { <<"/stop">>, <<" ", "/STOP", "\n">> }

\* the message a step appended first
Appended == session'.chat_history[Len(session.chat_history) + 1]

\* the step is a chat() call on a Started, not Ended engine
LiveChatStep == last_call'.op = "chat" /\ is_started /\ ~is_ended

\* C1: in every reachable state turn_count equals the number of messages of
\* chat_history whose role is USER.
C1_TurnCountIsCandidateCount ==
    session.turn_count = CountRole(session.chat_history, USER)

\* a session with candidate and model messages, one candidate turn of which
\* got no reply
C1_Witness ==
    /\ session.turn_count = MAX_INTERVIEW_TURNS
    /\ Len(session.chat_history) > session.turn_count
    /\ CountRole(session.chat_history, MODEL) < session.turn_count

\* C2: once the status is COMPLETED or TERMINATED, no later call sets it back
\* to PENDING or IN_PROGRESS and chat_history never grows again.
C2_TerminalIsFinal ==
    [][session.status \in Terminal =>
          /\ session'.status \in Terminal
          /\ Len(session'.chat_history) = Len(session.chat_history)]_vars

\* C3: without a test command, the chat() call that brings turn_count to the
\* turn budget appends the candidate message, issues no generation call,
\* yields only the fixed closing line, appends no model message and ends the
\* interview as COMPLETED; an earlier chat() call issues exactly one
\* generation call and, unless its reply holds a termination phrase, leaves
\* the engine not Ended.
C3_TurnBudget ==
    [][LiveChatStep =>
          /\ Len(session'.chat_history) > Len(session.chat_history)
          /\ Appended.role = USER
          /\ ~(test_mode /\ Appended.content \in StopTexts) =>
                /\ session'.turn_count = session.turn_count + 1
                /\ session'.turn_count = MAX_INTERVIEW_TURNS =>
                      /\ session'.chat_history = Append(session.chat_history, Appended)
                      /\ last_call'.gen = 0
                      /\ gen_calls' = gen_calls
                      /\ last_call'.yielded = <<TURN_LIMIT_END_MSG>>
                      /\ is_ended'
                      /\ session'.status = COMPLETED
                /\ session'.turn_count < MAX_INTERVIEW_TURNS =>
                      /\ last_call'.gen = 1
                      /\ gen_calls' = gen_calls + 1
                      /\ Len(session'.chat_history) <= Len(session.chat_history) + 2
                      /\ (Len(session'.chat_history) = Len(session.chat_history) + 1
                            => ~is_ended')
                      /\ ((/\ Len(session'.chat_history) = Len(session.chat_history) + 2
                           /\ ~HoldsTerminationPhrase(session'.chat_history[Len(session'.chat_history)].content))
                            => ~is_ended')]_vars

\* the budget was used up by ordinary turns, each earlier one with a
\* generation call
C3_Witness ==
    /\ last_call.op = "chat"
    /\ last_call.yielded = <<TURN_LIMIT_END_MSG>>
    /\ session.turn_count = MAX_INTERVIEW_TURNS
    /\ gen_calls = MAX_INTERVIEW_TURNS
    /\ session.status = COMPLETED

\* C4: when the assembled reply of a chat() turn holds a termination phrase
\* the status is COMPLETED after the turn; every later chat() call yields the
\* fixed "already ended" line, issues no generation call and changes neither
\* chat_history, turn_count nor status.
C4_PhraseTermination ==
    [][last_call'.op = "chat" =>
          /\ (/\ last_call'.raised = None
              /\ last_call'.gen = 1
              /\ HoldsTerminationPhrase(Concat(last_call'.yielded)))
                => (session'.status = COMPLETED /\ is_ended')
          /\ (is_started /\ session.status \in Terminal)
                => /\ last_call'.yielded = <<INTERVIEW_END_NORMAL>>
                   /\ last_call'.gen = 0
                   /\ gen_calls' = gen_calls
                   /\ session' = session]_vars

\* a chat() call after the model's reply ended the interview
C4_Witness ==
    /\ last_call.op = "chat"
    /\ last_call.yielded = <<INTERVIEW_END_NORMAL>>
    /\ session.status = COMPLETED
    /\ session.chat_history # <<>>
    /\ session.chat_history[Len(session.chat_history)].role = MODEL
    /\ HoldsTerminationPhrase(session.chat_history[Len(session.chat_history)].content)
    /\ session.turn_count < MAX_INTERVIEW_TURNS

\* C5: on a Started, not Ended engine a /stop message takes the fast path if
\* and only if test mode is on: then the candidate message is appended, the
\* engine is Ended with status COMPLETED, test_mode_triggered is set and no
\* generation call is made, neither for the turn nor for the evaluation, which
\* is the scripted one (tier S, score 95); with test mode off the message is
\* an ordinary candidate turn and test_mode_triggered stays false.
C5_TestStop ==
    [][/\ LiveChatStep =>
             /\ Len(session'.chat_history) > Len(session.chat_history)
             /\ test_mode_triggered' = (test_mode /\ Appended.content \in StopTexts)
             /\ (test_mode /\ Appended.content \in StopTexts) =>
                   /\ session'.chat_history = Append(session.chat_history, Appended)
                   /\ Appended.role = USER
                   /\ is_ended'
                   /\ session'.status = COMPLETED
                   /\ last_call'.gen = 0
                   /\ gen_calls' = gen_calls
             /\ (~test_mode /\ Appended.content \in StopTexts) =>
                   /\ Appended.role = USER
                   /\ session'.turn_count = session.turn_count + 1
                   /\ IF session'.turn_count >= MAX_INTERVIEW_TURNS
                      THEN last_call'.yielded = <<TURN_LIMIT_END_MSG>>
                      ELSE last_call'.gen = 1 /\ gen_calls' = gen_calls + 1
       /\ (last_call'.op = "run_evaluation" /\ test_mode_triggered) =>
             /\ eval_pc' = "returned"
             /\ eval_trace'.attempts = 0
             /\ evaluation'.decision_tier = "S"
             /\ evaluation'.total_score = TEST_MODE_SCORE]_vars

\* the /stop fast path was taken and the session evaluated
C5_Witness ==
    /\ test_mode_triggered
    /\ last_call.op = "run_evaluation"
    /\ eval_pc = "returned"
    /\ session.chat_history[Len(session.chat_history)].content = <<" ", "/STOP", "\n">>

\* C6: when a chat() call ends the interview, the status is COMPLETED or
\* TERMINATED, should_evaluate is true and can_continue is false right after
\* it, and both keep these values across every later chat() call.
C6_EndedMeansEvaluate ==
    [][last_call'.op = "chat" =>
          /\ (~is_ended /\ is_ended') =>
                /\ session'.status \in Terminal
                /\ should_evaluate'
                /\ ~can_continue'
          /\ (should_evaluate /\ ~can_continue) =>
                /\ should_evaluate'
                /\ ~can_continue']_vars

\* a chat() call on an interview that an earlier chat() call ended
C6_Witness ==
    /\ last_call.op = "chat"
    /\ last_call.yielded = <<INTERVIEW_END_NORMAL>>
    /\ should_evaluate
    /\ ~can_continue
    /\ session.turn_count = MAX_INTERVIEW_TURNS
    /\ session.status = COMPLETED

\* C7: a second start_interview() on the same engine raises RuntimeError,
\* issues no generation call and leaves chat_history, turn_count, status and
\* the continuation token unchanged.
C7_SecondStartRejected ==
    [][(start_called /\ last_call'.op = "start_interview") =>
          /\ last_call'.raised = "RuntimeError"
          /\ last_call'.gen = 0
          /\ gen_calls' = gen_calls
          /\ session' = session
          /\ conversation' = conversation]_vars

\* a rejected start_interview() after a first one recorded its greeting
C7_Witness ==
    /\ start_called
    /\ last_call.op = "start_interview"
    /\ last_call.raised = "RuntimeError"
    /\ gen_calls = 1
    /\ Len(session.chat_history) = 1

\* C8: chat() on an engine that was not started raises RuntimeError without
\* appending the candidate message, without incrementing turn_count and
\* without a generation call.
C8_ChatBeforeStart ==
    [][(~is_started /\ last_call'.op = "chat") =>
          /\ last_call'.raised = "RuntimeError"
          /\ last_call'.gen = 0
          /\ gen_calls' = gen_calls
          /\ session' = session]_vars

\* a rejected chat() on a fresh engine
C8_Witness ==
    /\ ~is_started
    /\ last_call.op = "chat"
    /\ last_call.raised = "RuntimeError"
    /\ session.chat_history = <<>>

\* C9 as stated: chat() on an engine that is not Started, or is already
\* Ended, raises the precondition error.
C9_EndedChatRaises ==
    [][(last_call'.op = "chat" /\ (~is_started \/ is_ended)) =>
          last_call'.raised = "RuntimeError"]_vars

\* C9 amended: chat() raises the precondition error exactly when the engine
\* is not Started; on a Started engine that is already Ended it does not
\* raise, yields the fixed "already ended" line and changes nothing.
C9_EndedChatYieldsEndLine ==
    [][last_call'.op = "chat" =>
          /\ (last_call'.raised = "RuntimeError") = ~is_started
          /\ (is_started /\ is_ended) =>
                /\ last_call'.raised = None
                /\ last_call'.yielded = <<INTERVIEW_END_NORMAL>>
                /\ last_call'.gen = 0
                /\ session' = session
                /\ is_ended']_vars

\* a chat() call on an engine that force_end() had ended
C9_Witness ==
    /\ is_started
    /\ is_ended
    /\ session.status = TERMINATED
    /\ last_call.op = "chat"
    /\ last_call.raised = None
    /\ last_call.yielded = <<INTERVIEW_END_NORMAL>>

\* every attempt of the evaluation met a transport error
AllTransportErrors ==
    /\ eval_input # <<>>
    /\ \A i \in DOMAIN eval_input : eval_input[i].kind = "api_error"

WellFormed(e) ==
    /\ e.total_score \in 0..100
    /\ e.decision_tier \in {"S", "A", "B", "C"}
    /\ e.is_pass \in BOOLEAN
    /\ e.summary # <<>>
    /\ e.notification_text # <<>>

\* C10: on a session with a non-empty transcript evaluate() never raises, and
\* when every generation call fails with a transport error it returns a
\* well-formed result with the fallback values (score 50, tier B, is_pass,
\* strengths marking manual review) and a red flag holding the error text.
C10_EvaluateFallsBack ==
    (/\ last_call.op \in {"evaluate", "run_evaluation"}
     /\ ~test_mode_triggered
     /\ session.chat_history # <<>>) =>
        /\ eval_pc = "returned"
        /\ AllTransportErrors =>
              /\ WellFormed(evaluation)
              /\ evaluation.total_score = FALLBACK_SCORE
              /\ evaluation.decision_tier = "B"
              /\ evaluation.is_pass
              /\ evaluation.key_strengths = << <<"needs_manual_review">> >>
              /\ \E i \in DOMAIN evaluation.red_flags :
                    Contains(evaluation.red_flags[i], eval_input[1].message)

\* an evaluation whose three attempts all met a transport error
C10_Witness ==
    /\ last_call.op = "evaluate"
    /\ session.chat_history # <<>>
    /\ AllTransportErrors
    /\ eval_pc = "returned"
    /\ eval_trace.attempts = MAX_RETRIES + 1
    /\ evaluation.total_score = FALLBACK_SCORE

-----------------------------------------------------------------------------
(* Properties of the evaluator *)

\* a state right after a direct evaluate() call
Evaluated == last_call.op = "evaluate" /\ eval_pc # "idle"

\* what the k-th attempt of the call ended with
RaisedAt(k) == Attempt(session, eval_input[k]).raised

\* the result is the fallback evaluation
IsFallback(e) ==
    /\ e # NoResult
    /\ e.key_strengths = << <<"needs_manual_review">> >>
    /\ e.summary = <<"automatic_evaluation_not_completed", "hr_should_review_manually">>

\* C11: evaluate() on a session with an empty transcript raises ValueError
\* before any generation attempt is made and produces no result, not even the
\* fallback.
C11_EmptyTranscriptRejected ==
    (Evaluated /\ session.chat_history = <<>>) =>
        /\ eval_pc = "raised"
        /\ last_call.raised = "ValueError"
        /\ eval_trace.attempts = 0
        /\ evaluation = NoResult

\* evaluate() was called on an empty transcript and raised
C11_Witness ==
    /\ Evaluated
    /\ session.chat_history = <<>>
    /\ session.status = TERMINATED
    /\ last_call.raised = "ValueError"

\* C12: one evaluate() call makes at most 3 attempts; every attempt before
\* the last one made failed with GeminiAPIError or a timeout; a successful
\* attempt is the last one and its result is returned; an attempt failing with
\* any other exception is the last one and the fallback is returned; the
\* fallback after retryable failures comes only once 3 attempts were made.
C12_RetryLoop ==
    (Evaluated /\ session.chat_history # <<>>) =>
        LET n == eval_trace.attempts
        IN /\ n \in 1..3
           /\ \A k \in 1..(n - 1) : RaisedAt(k) \in {"GeminiAPIError", "TimeoutError"}
           /\ RaisedAt(n) = None =>
                 /\ eval_pc = "returned"
                 /\ evaluation = Attempt(session, eval_input[n]).result
                 /\ ~IsFallback(evaluation)
           /\ RaisedAt(n) \in {"GeminiAPIError", "TimeoutError"} =>
                 n = 3 /\ IsFallback(evaluation)
           /\ RaisedAt(n) \notin {None, "GeminiAPIError", "TimeoutError"} =>
                 IsFallback(evaluation)

\* a timeout, then an exception of another class: two attempts, the fallback
C12_Witness ==
    /\ Evaluated
    /\ session.chat_history # <<>>
    /\ eval_input[1].kind = "timeout"
    /\ eval_input[2].kind = "other_error"
    /\ eval_trace.attempts = 2
    /\ IsFallback(evaluation)

\* C13: when the first answer of the generation service is text from which
\* no JSON can be recovered, evaluate() makes a further attempt before it
\* returns the fallback.
C13_MalformedRetried ==
    (/\ Evaluated
     /\ session.chat_history # <<>>
     /\ eval_input[1].kind = "ok"
     /\ eval_input[1].form = "garbage") =>
        eval_trace.attempts >= 2

\* the tier the thresholds give a score
ThresholdTier(score) ==
    IF score >= 90 THEN "S" ELSE IF score >= 80 THEN "A"
    ELSE IF score >= 60 THEN "B" ELSE "C"

\* C14: every EvaluationResult produced (by a successful evaluate(), by the
\* fallback of evaluate(), by create_test_mode_evaluation) has the tier the
\* thresholds give its total_score.
C14_TierFollowsScore ==
    evaluation # NoResult =>
        evaluation.decision_tier = ThresholdTier(evaluation.total_score)

-----------------------------------------------------------------------------
(* Properties of _validate_scores, the file lock, safe_write_json and the  *)
(* rate limiter                                                            *)

ClampedScore(s) == IF s < 0 THEN 0 ELSE IF s > 100 THEN 100 ELSE s

\* C15: for every raw score, tier and is_pass, _validate_scores returns the
\* score clamped to 0..100, the tier the thresholds give the clamped score,
\* and is_pass = (tier is not C); the raw tier and is_pass play no part.
C15_ScoresRederived ==
    validated # Absent =>
        LET s == ClampedScore(raw_data.total_score[1])
        IN /\ validated[1].total_score = Some(s)
           /\ validated[1].decision_tier = Some(ThresholdTier(s))
           /\ validated[1].is_pass = Some(ThresholdTier(s) # "C")

\* a raw score above 100 claimed with tier C and is_pass false comes out as
\* 100, S, pass
C15_Witness ==
    /\ validated # Absent
    /\ raw_data.total_score = Some(100 + ScoreMargin)
    /\ raw_data.decision_tier = Some("C")
    /\ raw_data.is_pass = Some(FALSE)
    /\ validated[1].decision_tier = Some("S")
    /\ validated[1].is_pass = Some(TRUE)

CompleteRecords == {OLD_RECORD} \cup {RecordOf(c) : c \in Savers}

\* a file that is absent or holds one complete record
Intact(f) == ~f.exists \/ f.content \in CompleteRecords

\* C16: at every step the target path is absent or holds a complete record,
\* and so does what a loader read; the target changes only by the rename of
\* a saver, to that saver's complete record; a failure in the body of
\* safe_write_json or a crash leaves the target as it was.
C16_AtomicWrite ==
    [][/\ Intact(files[TARGET]) /\ Intact(files'[TARGET])
       /\ Intact(last_read')
       /\ files'[TARGET] # files[TARGET] =>
             \E c \in Savers : /\ lk_pc[c] = "rename"
                                /\ lk_pc'[c] = "release"
                                /\ files'[TARGET] = File(RecordOf(c))
       /\ (\E c \in Callers : /\ lk_pc'[c] # lk_pc[c]
                                /\ lk_pc'[c] \in {"cleanup", "crashed"}) =>
             files'[TARGET] = files[TARGET]]_vars

\* a1 died with its temp file fully written and not renamed: the previous
\* record is still at the target
C16_Witness ==
    /\ lk_pc["a1"] = "crashed"
    /\ files[TempPath("a1")] = File(RecordOf("a1"))
    /\ files[TARGET] = File(OLD_RECORD)

\* C17: as long as no marker has gone stale under a caller still in its with
\* body, at most one caller is in the with body of file_lock(path).
C17_MutualExclusion ==
    ~overstayed => Cardinality({c \in Callers : InBody(c)}) <= 1

\* C18 (its last part): a caller whose acquisition failed holds neither the
\* thread lock of its process nor a marker it created.
C18_FailedHoldsNothing ==
    \A c \in Callers :
        lk_pc[c] = "failed" =>
            /\ thread_lock[Proc(c)] # c
            /\ ~(marker.exists /\ marker.creator = c)

\* the marker of a holder that died
OrphanMarker == marker.exists /\ lk_pc[marker.creator] = "crashed"

\* C19: a marker left by a holder that died does not block the path for
\* ever: once such a marker is there and a caller stays alive and keeps
\* calling, the marker is removed and a caller creates its own marker and
\* enters the with body (the only other outcome is that every caller died).
C19_StaleMarkerRecovered ==
    OrphanMarker ~>
        \/ \E d \in Callers : lk_pc[d] = "held" /\ marker = Marker(d)
        \/ \A c \in Callers : lk_pc[c] = "crashed"

\* b1 died in its with body, a marker outlived its holder, and a1 holds the
\* lock now
C19_Witness ==
    /\ lk_pc["b1"] = "crashed"
    /\ overstayed
    /\ lk_pc["a1"] = "held"
    /\ marker = Marker("a1")

\* the thread whose is_allowed call returns in this step
Decides(t) == lim_pc[t] = "locking" /\ lim_pc'[t] = "idle"

\* C20: is_allowed(key) with current_time T returns True only when fewer
\* than max_requests requests were allowed before for the key with a
\* timestamp in the window that ends at T, and so no window holds more than
\* max_requests allowed requests of a key, whatever the interleaving of the
\* callers.  The window is taken without its lower end, (T - window, T], as
\* the code filters it: the closed window of the claim implies this.
C20_SlidingWindow ==
    [][/\ \A t \in LimThreads :
             (Decides(t) /\ lim_allowed' # lim_allowed) =>
                 AllowedBetween(lim_key[t], lim_time[t] - WINDOW_SECONDS + 1,
                                lim_time[t]) < MAX_REQUESTS
       /\ \A k \in LimKeys, s \in Times :
             AllowedBetween(k, s - WINDOW_SECONDS + 1, s)' <= MAX_REQUESTS]_vars

\* the thread whose get_reset_time call returns in this step
ResetReturns(t) == lim_pc[t] = "reset_locking" /\ lim_pc'[t] = "reported"

\* the key is at its limit for a call made at current_time
AtLimit(key, current_time) ==
    ~UnderLimit(Recent(lim_requests[key], current_time - WINDOW_SECONDS))

\* C21: a get_reset_time(key) call made right after is_allowed(key) returned
\* False, with the same clock reading, returns a value that is positive and
\* at most the window length; a call for a key that is not at its limit
\* returns None.
C21_ResetTimeInWindow ==
    [][\A t \in LimThreads :
          ResetReturns(t) =>
              /\ lim_follows[t] =>
                    /\ lim_reset'[t] # Absent
                    /\ Get(lim_reset'[t], 0) > 0
                    /\ Get(lim_reset'[t], 0) <= WINDOW_SECONDS
              /\ ~AtLimit(lim_key[t], lim_time[t]) => lim_reset'[t] = Absent]_vars

\* the spec's order of the scopes: per-session, per-client-address, global
SCOPE_ORDER == <<"session", "ip", "global">>

\* seq is the start of SCOPE_ORDER, a scope that was not asked for left out
InScopeOrder(seq) ==
    \A i, j \in 1..Len(seq) :
        i < j => \E a, b \in 1..3 : a < b /\ SCOPE_ORDER[a] = seq[i] /\ SCOPE_ORDER[b] = seq[j]

\* C22: check_request consults the scopes in the order per-session,
\* per-client-address, global, and a refusal carries the wait-time estimate
\* of the scope that failed.
C22_ScopeOrder ==
    cr_last.caller # None =>
        /\ InScopeOrder(cr_last.consulted)
        /\ ~cr_last.allowed => cr_last.wait # Absent

\* C23: a turn that process_user_input admits was allowed by all three
\* limiters: the per-session, the per-client-address and the global one
\* were each consulted.
C23_AllScopesConsulted ==
    (cr_last.caller = "process_user_input" /\ cr_last.allowed) =>
        {cr_last.consulted[i] : i \in 1..Len(cr_last.consulted)} = Scopes

\* the call has run
Requested == http_result # NoHttpResult

\* the HTTP errors the retry policy does not retry: 4xx other than 429
ClientError(o) ==
    o.kind = "response" /\ 400 <= o.status_code /\ o.status_code < 500 /\ o.status_code # 429

\* C24: _request_with_retry makes at most 3 POST attempts; it returns the
\* first successful response; each attempt before the last one made ended
\* in a transport failure or a retryable HTTP error; after a third failed
\* attempt it raises GeminiAPIError; it never returns a failed response.
C24_BoundedRetry ==
    Requested =>
        /\ http_result.attempts \in 1..max_retries
        /\ \A i \in 1..(http_result.attempts - 1) :
              /\ http_input[i] # Response(200)
              /\ ~ClientError(http_input[i])
        /\ http_result.returned # Absent =>
              /\ http_input[http_result.attempts].status_code = 200
              /\ http_result.returned = Some(200)
              /\ http_result.raised = None
        /\ http_result.returned = Absent => http_result.raised = "GeminiAPIError"

\* C25: when an attempt is answered with a 4xx status other than 429,
\* _request_with_retry raises GeminiAPIError with that status attached,
\* with no further attempt and no backoff wait after that answer.
C25_ClientErrorRaisedAtOnce ==
    Requested =>
        \A i \in 1..http_result.attempts :
            ClientError(http_input[i]) =>
                /\ http_result.attempts = i
                /\ http_result.raised = "GeminiAPIError"
                /\ http_result.status_code = Some(http_input[i].status_code)
                /\ Len(http_result.sleeps) = i - 1

\* the elements the call yielded
Yielded == Get(sse_yielded, <<>>)

\* C26: when a safety block is signalled in a stream, stream_generate
\* yields exactly one sentinel chunk and stops: the sentinel is the last
\* element it yields, and there is only one.
C26_SentinelEndsStream ==
    (sse_yielded # Absent /\ \E i \in 1..Len(sse_lines) : SafetyBlock(sse_lines[i])) =>
        /\ \E k \in 1..Len(Yielded) : Yielded[k] = Elem(SAFETY_SENTINEL, None)
        /\ \A k \in 1..Len(Yielded) :
              Yielded[k] = Elem(SAFETY_SENTINEL, None) => k = Len(Yielded)

\* the step is a start_interview() or chat() call that issued a generation
\* call
GenerationStep == gen_calls' > gen_calls

EvaluationPaths == { p \in StorePaths : p.kind = "evaluation" }

\* C28: once an evaluation record is written, no later save_evaluation or
\* save_interview_complete call changes the content stored at its path.
C28_EvaluationNeverRewritten ==
    [][\A p \in EvaluationPaths :
          st_files[p] # Absent => st_files'[p] = st_files[p]]_vars

\* the states a session object of the id created on the day goes through
SessionObjects(id, created_at) ==
    { StoredSession(id, created_at), SessionProgress(StoredSession(id, created_at)) }

\* the evaluations saved for the id, in whatever directory
SavedEvaluations(id) ==
    { st_files[q] : q \in { p \in EvaluationPaths :
                              p.prefix = Slice(id, 12) /\ st_files[p] # Absent } }

\* the lookup result r holds the session s with its messages, status, turn
\* count and continuation token
ReturnsSession(r, s) ==
    /\ r # Absent
    /\ r[1].session.session_id = s.session_id
    /\ r[1].session.chat_history = s.chat_history
    /\ r[1].session.status = s.status
    /\ r[1].session.turn_count = s.turn_count
    /\ r[1].session.thought_signature = s.thought_signature

\* the lookup result r holds the evaluation saved for the id, or none when
\* none was saved
ReturnsEvaluation(r, id) ==
    /\ r # Absent
    /\ IF SavedEvaluations(id) = {} THEN r[1].evaluation = Absent
       ELSE r[1].evaluation \in SavedEvaluations(id)

\* the last call was a lookup by one of the keys and found the session
\* file of the id, saved from the session object s, in the store
LookedUp(id, keys, p, s) ==
    /\ st_last.done
    /\ st_last.session_prefix \in keys
    /\ p.kind = "session"
    /\ p.prefix = Slice(id, 12)
    /\ s \in SessionObjects(id, p.dir)
    /\ st_files[p] = Some(model_dump(s))

\* C29: after save_session(s), and optionally save_evaluation for s, a
\* lookup by the full id of s or by its first 8 or 12 characters returns
\* the saved session with the same messages, status, turn count and
\* continuation token, with the evaluation if one was saved and with no
\* evaluation otherwise.
C29_LookupReturnsSaved ==
    \A id \in StoredIds, p \in StorePaths :
        \A s \in SessionObjects(id, p.dir) :
            LookedUp(id, LookupKeys(id), p, s) =>
                /\ ReturnsSession(st_last.result, s)
                /\ ReturnsEvaluation(st_last.result, id)

\* C30: when the generation call of a chat() turn fails with a transport
\* error, the error reaches the caller after that single generation call;
\* the candidate's message of the turn is in chat_history once and no model
\* message follows it, the engine is still started and not ended, and the
\* stored thought_signature is what it was.
C30_FailedTurnLeavesSession ==
    [][(GenerationStep /\ last_call'.op = "chat" /\ last_call'.raised = "GeminiAPIError") =>
          /\ gen_calls' = gen_calls + 1
          /\ \E user_message \in UserInputs :
                session'.chat_history =
                    Append(session.chat_history, Message(USER, user_message))
          /\ is_started'
          /\ ~is_ended'
          /\ session'.thought_signature = session.thought_signature]_vars

\* a turn failed after part of the reply had been received, on a session
\* that holds a token
C30_Witness ==
    /\ last_call.op = "chat"
    /\ last_call.raised = "GeminiAPIError"
    /\ last_call.gen = 1
    /\ last_call.yielded # <<>>
    /\ session.thought_signature = "sigA"
    /\ session.chat_history[Len(session.chat_history)].role = USER
    /\ is_started
    /\ ~is_ended

\* C31: when the deadline of an attempt expires with the worker's call
\* unfinished, evaluate() gives up waiting for it: it can go on to the next
\* attempt, or to the fallback, while that call is still running.
C31_GivesUpWaiting ==
    (et_pc = "exit" /\ et_pending = "FuturesTimeoutError") => ENABLED LeaveWith

HasTrigger(history) ==
    \E i \in 1..Len(history) : history[i].content = START_TRIGGER

\* C32: a fully consumed start_interview() leaves chat_history with exactly
\* one message, of role MODEL, whose text is the concatenation of the
\* greeting chunks it yielded, turn_count 0 and status IN_PROGRESS; the
\* trigger text is sent with the greeting call only: it is never in
\* chat_history, and never in the contents a later chat() turn sends.
C32_GreetingOnly ==
    [][/\ (GenerationStep /\ last_call'.op = "start_interview" /\ last_call'.raised = None) =>
             /\ session'.chat_history = <<Message(MODEL, Concat(last_call'.yielded))>>
             /\ session'.turn_count = 0
             /\ session'.status = IN_PROGRESS
             /\ last_call'.contents = <<Message(USER, START_TRIGGER)>>
       /\ ~HasTrigger(session'.chat_history)
       /\ (GenerationStep /\ last_call'.op = "chat") =>
             ~HasTrigger(last_call'.contents)]_vars

\* a chat() turn after the greeting replayed the greeting and the
\* candidate's message
C32_Witness ==
    /\ last_call.op = "chat"
    /\ last_call.gen = 1
    /\ Len(last_call.contents) = 2
    /\ last_call.contents[1].role = MODEL
    /\ last_call.contents[1].content = session.chat_history[1].content
    /\ last_call.contents[1].content # <<>>
    /\ last_call.contents[2].role = USER
    /\ start_called

\* the step is the decision of thread t's is_allowed call, and its sweep ran
Sweeps(t) ==
    /\ lim_pc[t] = "locking"
    /\ lim_pc'[t] # "locking"
    /\ lim_time[t] - lim_last_cleanup > CLEANUP_INTERVAL

\* what is_allowed answers for the key at current_time on the lists
OutcomeOn(requests, key, current_time) ==
    UnderLimit(Recent(requests[key], current_time - WINDOW_SECONDS))

\* C33: the sweep of an is_allowed call that comes more than
\* cleanup_interval after the previous sweep empties every key whose
\* timestamps all lie outside the window of the call and keeps every
\* timestamp inside it, and it changes the outcome of no request: the call
\* itself answers as it would on the unswept lists, and so does every
\* request decided after it, those that have read the clock already
\* included.
C33_SweepChangesNoOutcome ==
    [][\A t \in LimThreads :
          Sweeps(t) =>
             /\ lim_last_cleanup' = lim_time[t]
             /\ \A k \in LimKeys \ {lim_key[t]} :
                   lim_requests'[k] = Recent(lim_requests[k], lim_time[t] - WINDOW_SECONDS)
             /\ (lim_allowed' # lim_allowed) =
                   OutcomeOn(lim_requests, lim_key[t], lim_time[t])
             /\ \A u \in LimThreads \ {t} :
                   lim_pc[u] = "locking" =>
                       OutcomeOn(lim_requests', lim_key[u], lim_time[u]) =
                       OutcomeOn([lim_requests EXCEPT ![lim_key[t]] = lim_requests'[lim_key[t]]],
                                 lim_key[u], lim_time[u])]_vars

\* the raw text is there and is more than whitespace
NonEmptyText(text) == text # Absent /\ Strip(Get(text, <<>>)) # <<>>

\* the raw text is a message of its own: non-empty and not the generic
\* thank-you text
DistinctText(text) ==
    NonEmptyText(text) /\ ~Contains(Get(text, <<>>), <<"thank_you_for_your_time">>)

\* C34: after normalisation an S-tier result keeps the raw notification
\* text only if it is a distinct, non-generic message and gets the S-tier
\* invitation otherwise; any other result keeps the raw text only if it is
\* non-empty and gets the generic text otherwise.
C34_NotificationChosen ==
    validated # Absent =>
        validated[1].notification_text =
            IF validated[1].decision_tier = Some("S")
            THEN IF DistinctText(raw_data.notification_text)
                 THEN raw_data.notification_text ELSE Some(S_TIER_DEFAULT_NOTIFICATION)
            ELSE IF NonEmptyText(raw_data.notification_text)
                 THEN raw_data.notification_text ELSE Some(DEFAULT_NOTIFICATION)

\* the step is a check_request call that returns not-allowed
Rejects == cr_now' = cr_now /\ cr_last'.caller # None /\ ~cr_last'.allowed

\* how many timestamps of the current instant the list holds
StampedNow(timestamps) == Len(Recent(timestamps, cr_now - 1))

\* C35: a check_request call that returns not-allowed consumes no quota: it
\* records no timestamp in the session, client-address or global limiter
\* (timestamps that have left the window may be dropped).
C35_RejectionConsumesNothing ==
    [][Rejects =>
          \A s \in Scopes, k \in CheckKeys :
              /\ StampedNow(cr_requests'[s][k]) = StampedNow(cr_requests[s][k])
              /\ Len(cr_requests'[s][k]) <= Len(cr_requests[s][k])]_vars

\* the step is the os.remove of caller c's release()
ReleaseRemoves(c) == lk_pc[c] = "rel_remove" /\ lk_pc'[c] = "rel_unlock"

\* C36: the release() of a holder that was evicted while alive does not
\* delete the marker a new holder has created since: a marker whose creator
\* is in its with body survives the release() of every other caller (and so
\* keeps third callers out).
C36_ReleaseSparesNewMarker ==
    [][\A c \in Callers :
          (/\ ReleaseRemoves(c)
           /\ marker.exists
           /\ marker.creator # c
           /\ InBody(marker.creator)) => marker' = marker]_vars

\* C37: with the turn budget MAX_INTERVIEW_TURNS, turn_count never exceeds
\* the budget, a Started and not Ended engine has turn_count below the
\* budget, every chat() call on such an engine uses up one turn whatever
\* the model replies and whether or not the generation call fails (so the
\* interview ends after at most that many chat() calls), and the session
\* issues at most as many generation calls as the budget: the greeting and
\* one per turn short of the last.
C37_BudgetBoundsInterview ==
    [][/\ session'.turn_count <= MAX_INTERVIEW_TURNS
       /\ (is_started' /\ ~is_ended') => session'.turn_count < MAX_INTERVIEW_TURNS
       /\ gen_calls' <= MAX_INTERVIEW_TURNS
       /\ LiveChatStep => session'.turn_count = session.turn_count + 1
       /\ (LiveChatStep /\ session'.turn_count = MAX_INTERVIEW_TURNS) => is_ended']_vars

\* the budget was used up by turns whose generation calls failed, and the
\* last chat() call ended the interview
C37_Witness ==
    /\ session.turn_count = MAX_INTERVIEW_TURNS
    /\ gen_calls = MAX_INTERVIEW_TURNS
    /\ is_ended
    /\ CountRole(session.chat_history, MODEL) <= 1
    /\ last_call.yielded = <<TURN_LIMIT_END_MSG>>

\* the roles and texts of a history, in order
Turns(h) == [i \in 1..Len(h) |-> <<h[i].role, h[i].content>>]

\* C38: while the engine is started and not ended, the history replayed to
\* the generation service has the same sequence of roles and texts as the
\* session's chat_history, for an engine driven through start_interview and
\* chat and for one rebuilt by restore_interviewer; and a rebuilt engine is
\* ended exactly when the saved status is COMPLETED or TERMINATED.
C38_ReplayedHistoryIsChatHistory ==
    /\ (is_started /\ ~is_ended)
          => Turns(conversation.history) = Turns(session.chat_history)
    /\ last_call.op = "restore_interviewer"
          => (is_ended <=> session.status \in {COMPLETED, TERMINATED})

\* a rebuilt engine that went on with a complete turn
C38_Witness ==
    /\ ~start_called
    /\ last_call.op = "chat"
    /\ last_call.gen = 1
    /\ last_call.raised = None
    /\ is_started /\ ~is_ended
    /\ Len(conversation.history) >= 3
    /\ conversation.history[Len(conversation.history)].role = MODEL

\* a start_interview() call whose generation call failed or whose greeting
\* stream the caller abandoned
FailedStart(c) ==
    c.op = "start_interview" /\ c.gen = 1 /\ c.raised \in {"GeminiAPIError", "abandoned"}

\* C39: after a start_interview() whose generation call failed, or whose
\* greeting stream was abandoned, the engine is either still not started with
\* status PENDING, so that start_interview() can be called again, or a
\* greeting has been recorded; it is never started with status IN_PROGRESS
\* and an empty chat_history.
C39_FailedStartCanBeRetried ==
    /\ FailedStart(last_call)
          => \/ ~is_started /\ session.status = PENDING
             \/ session.chat_history # <<>>
    /\ ~(is_started /\ session.status = IN_PROGRESS /\ session.chat_history = <<>>)

\* the files of a session in the directory of a day
SessionFile(id, d) == st_files[_get_session_path(id, Some(d))]

EvaluationFile(id, d) == st_files[_get_evaluation_path(id, Some(d))]

\* C40: in every state of the save path, where an evaluation file of a
\* session exists the session file of that session exists and holds a
\* terminal status; and a save_interview_complete call whose session save
\* fails writes no evaluation.
C40_EvaluationAfterSession ==
    [][/\ \A id \in StoredIds, d \in Dates :
            EvaluationFile(id, d)' # Absent
              => /\ SessionFile(id, d)' # Absent
                 /\ SessionFile(id, d)'[1].status \in {COMPLETED, TERMINATED}
       /\ (sp_complete.stage # "session_saved" /\ sp_complete'.stage = "raised")
            => \A id \in StoredIds, d \in Dates :
                  EvaluationFile(id, d)' = EvaluationFile(id, d)]_vars

====
